---- MODULE Spec2Model ----
(***************************************************************************)
(* Excel mock interviewer: the interview state manager                     *)
(* (lib/excel-interview-state-manager.ts), the stored session              *)
(* (services/excel-interview-session.service.ts with its API route and the *)
(* ExcelInterviewFlow client) and the practical-task workspace             *)
(* (components/spreadsheet/SpreadsheetWorkspace.tsx with its parent        *)
(* ExcelInterviewCall).                                                    *)
(***************************************************************************)
EXTENDS Integers, Sequences, FiniteSets, TLC

VARIABLES
  session,      \* ExcelInterviewStateManagerImpl.session
  callbacks,    \* ExcelInterviewStateManagerImpl.stateTransitionCallbacks
  now,          \* the wall clock, in seconds since the session's start_time
  last,         \* the last operation on the manager: its argument, result, hooks run
  stored,       \* the row of table excel_interview_session for the session
  inflight,     \* recordStateTransition calls between their fetch and their update
  flow,         \* ExcelInterviewFlow: its session and currentState (React state)
  workspace,    \* SpreadsheetWorkspace: its React state, interval and queued updates
  call,         \* ExcelInterviewCall: currentState, currentTaskIndex, taskResults
  evalCall,     \* the call on ExcelEvaluationService under way or just returned
  evalPrev,     \* the result of the call before it, when evalCall repeats that call
  tracker,      \* an ActionTracker: its actions, and what its last method returned
  added,        \* every action handed to the tracker's addAction, in arrival order
  scored,       \* the last call of compareSpreadsheets or evaluateTask, with its result
  pending,      \* the manager's calls started without awaiting the one before
  response,     \* a row of table response: spreadsheet_results, and the saves under way
  config        \* ExcelConfigManager: its cache, the store behind it, the clock

mgrVars == <<session, callbacks, now, last>>

storeVars == <<stored, inflight, flow>>

taskVars == <<workspace, call>>

evalVars == <<evalCall, evalPrev>>

utilVars == <<tracker, added, scored>>

serviceVars == <<response, config>>

otherThanService == <<session, callbacks, now, last, stored, inflight, flow,
                      workspace, call, evalCall, evalPrev, tracker, added,
                      scored, pending>>

vars == <<session, callbacks, now, last, stored, inflight, flow, workspace, call,
          evalCall, evalPrev, tracker, added, scored, pending,
    response, config>>

otherThanMgr == <<stored, inflight, flow, workspace, call, evalCall, evalPrev,
                  tracker, added, scored, pending,
    response, config>>

otherThanStore == <<session, callbacks, now, last, workspace, call, evalCall, evalPrev,
                    tracker, added, scored, pending,
    response, config>>

otherThanEval == <<session, callbacks, now, last, stored, inflight, flow, workspace, call,
                   tracker, added, scored, pending,
    response, config>>

otherThanUtil == <<session, callbacks, now, last, stored, inflight, flow, workspace, call,
                   evalCall, evalPrev, pending,
    response, config>>

otherThanTask == <<session, callbacks, now, last, stored, inflight, flow,
                   evalCall, evalPrev, tracker, added, scored, pending,
    response, config>>

(***************************************************************************)
(* Bounds of the model.                                                    *)
(***************************************************************************)
MaxTotal == 1        \* totalQuestions, totalTasks are 0 or MaxTotal
MaxCallbacks == 2    \* callbacks registered on one manager
TickStep == 30       \* seconds the clock advances in one step
MaxNow == 30         \* the clock stops advancing here
MaxHistory == 2      \* recordStateTransition calls start while the stored history is shorter
MaxInflight == 2     \* recordStateTransition calls in flight at once
TimeLimit == 3       \* task.time_limit * 60, the seconds the task's timer starts with
MaxActions == 3      \* edits the candidate makes in one task
MaxCalls == 2        \* calls of transition_to and autoProgress that may overlap

Totals == {0, MaxTotal}

(***************************************************************************)
(* Phases.                                                                 *)
(***************************************************************************)
stateFlow ==
  <<"introduction", "conceptual_questions", "practical_tasks",
    "feedback_generation", "conclusion">>

States == {stateFlow[i] : i \in 1..Len(stateFlow)}

indexOf(seq, x) ==
  IF \E i \in 1..Len(seq) : seq[i] = x
  THEN CHOOSE i \in 1..Len(seq) : seq[i] = x /\ \A j \in 1..(i - 1) : seq[j] # x
  ELSE 0

\* getValidTransitions with a phase skip allowed out of introduction
getValidTransitions_skip(from_state) ==
  CASE from_state = "introduction" -> <<"conceptual_questions", "practical_tasks">>
    [] from_state = "conceptual_questions" -> <<"practical_tasks">>
    [] from_state = "practical_tasks" -> <<"feedback_generation">>
    [] from_state = "feedback_generation" -> <<"conclusion">>
    [] OTHER -> <<>>

\* getValidTransitions with conclusion leading back to introduction
getValidTransitions_loop(from_state) ==
  CASE from_state = "introduction" -> <<"conceptual_questions">>
    [] from_state = "conceptual_questions" -> <<"practical_tasks">>
    [] from_state = "practical_tasks" -> <<"feedback_generation">>
    [] from_state = "feedback_generation" -> <<"conclusion">>
    [] from_state = "conclusion" -> <<"introduction">>
    [] OTHER -> <<>>

getValidTransitions(from_state) ==
  CASE from_state = "introduction" -> <<"conceptual_questions">>
    [] from_state = "conceptual_questions" -> <<"practical_tasks">>
    [] from_state = "practical_tasks" -> <<"feedback_generation">>
    [] from_state = "feedback_generation" -> <<"conclusion">>
    [] from_state = "conclusion" -> <<>>
    [] OTHER -> <<>>

includes(seq, x) == \E i \in 1..Len(seq) : seq[i] = x

\* can_transition accepting every state but the current one
can_transition_lax(s, to_state) == to_state # s.current_state

can_transition(s, to_state) ==
  includes(getValidTransitions(s.current_state), to_state)

getNextState(s) ==
  LET currentIndex == indexOf(stateFlow, s.current_state)
  IN IF currentIndex < Len(stateFlow)
     THEN <<stateFlow[currentIndex + 1]>>
     ELSE <<>>

(***************************************************************************)
(* state_data is an object: a function from its present keys.  `data` is    *)
(* the optional second argument of transition_to: absent, or an object.    *)
(***************************************************************************)
Has(obj, k) == k \in DOMAIN obj

NumOr0(obj, k) == IF Has(obj, k) THEN obj[k] ELSE 0

Merge(obj, more) ==
  [k \in (DOMAIN obj) \cup (DOMAIN more) |->
     IF k \in DOMAIN more THEN more[k] ELSE obj[k]]

NoData == [present |-> FALSE, obj |-> [k \in {} |-> 0]]

Data(obj) == [present |-> TRUE, obj |-> obj]

DataSet ==
  {NoData,
   Data([trigger |-> "manual", feedback_generated |-> TRUE]),
   Data([questions_completed |-> MaxTotal, tasks_completed |-> MaxTotal,
         current_question_index |-> 1, current_task_index |-> 1])}

\* data?.trigger || 'automatic'
triggerOf(data) ==
  IF data.present /\ Has(data.obj, "trigger") THEN data.obj.trigger
  ELSE "automatic"

(***************************************************************************)
(* createExcelInterviewStateManager                                        *)
(***************************************************************************)
createSession(totalQuestions, totalTasks) ==
  [current_state |-> "introduction",
   state_data |->
     [current_question_index |-> 0, current_task_index |-> 0,
      questions_completed |-> 0, tasks_completed |-> 0,
      total_questions |-> totalQuestions, total_tasks |-> totalTasks],
   conceptual_progress |-> [questions_answered |-> 0],
   practical_progress |-> [tasks_completed |-> 0],
   start_time |-> 0,
   start_time_is_Date |-> TRUE,
   end_time |-> <<>>,
   total_duration |-> <<>>,
   state_history |-> <<>>]

\* The session a client holds after response.json(): JSON carries start_time
\* as an ISO string, and the constructor keeps the object it is given.
sessionFromJSON(s) == [s EXCEPT !.start_time_is_Date = FALSE]

initializeStateCallbacks == [st \in States |-> <<>>]

(***************************************************************************)
(* Completion of the current phase                                         *)
(***************************************************************************)
minIntroTime == 30

isIntroductionComplete(s, t) == t - s.start_time >= minIntroTime

\* isConceptualQuestionsComplete without its total > 0 condition
isConceptualQuestionsComplete_anyTotal(s) ==
  NumOr0(s.state_data, "questions_completed")
    >= NumOr0(s.state_data, "total_questions")

isConceptualQuestionsComplete(s) ==
  LET completed == NumOr0(s.state_data, "questions_completed")
      total == NumOr0(s.state_data, "total_questions")
  IN completed >= total /\ total > 0

isPracticalTasksComplete(s) ==
  LET completed == NumOr0(s.state_data, "tasks_completed")
      total == NumOr0(s.state_data, "total_tasks")
  IN completed >= total /\ total > 0

\* isFeedbackGenerationComplete computed by the state machine itself
isFeedbackGenerationComplete_always(s) == TRUE

isFeedbackGenerationComplete(s) ==
  Has(s.state_data, "feedback_generated") /\ s.state_data.feedback_generated = TRUE

isCurrentStateComplete(s, t) ==
  CASE s.current_state = "introduction" -> isIntroductionComplete(s, t)
    [] s.current_state = "conceptual_questions" -> isConceptualQuestionsComplete(s)
    [] s.current_state = "practical_tasks" -> isPracticalTasksComplete(s)
    [] s.current_state = "feedback_generation" -> isFeedbackGenerationComplete(s)
    [] s.current_state = "conclusion" -> TRUE
    [] OTHER -> FALSE

(***************************************************************************)
(* transition_to                                                           *)
(***************************************************************************)
\* One callback is "ok" (resolves) or "throw" (throws or rejects).
CallbackKinds == {"ok", "throw"}

\* The phases callbacks are registered on in the model: the hooks run before
\* the first transition, after it and before the second.
HookStates == {"introduction", "conceptual_questions"}

RECURSIVE runCallbacks(_, _, _)
\* the for-loop of executeStateCallbacks from index i on: each callback is
\* awaited inside its own try/catch, so a throwing one is logged and the loop
\* goes on.  ran: the callbacks called; escaped: an error left the loop.
runCallbacks(state, cbs, i) ==
  IF i > Len(cbs) THEN [ran |-> <<>>, escaped |-> FALSE]
  ELSE LET rest == runCallbacks(state, cbs, i + 1)
       IN [ran |-> <<[state |-> state, index |-> i, kind |-> cbs[i]]>> \o rest.ran,
           escaped |-> rest.escaped]

RECURSIVE runCallbacks_abort(_, _, _)
\* executeStateCallbacks without the inner try/catch: the first throwing
\* callback ends the loop and the error reaches transition_to
runCallbacks_abort(state, cbs, i) ==
  IF i > Len(cbs) THEN [ran |-> <<>>, escaped |-> FALSE]
  ELSE IF cbs[i] = "throw"
       THEN [ran |-> <<[state |-> state, index |-> i, kind |-> cbs[i]]>>,
             escaped |-> TRUE]
       ELSE LET rest == runCallbacks_abort(state, cbs, i + 1)
            IN [ran |-> <<[state |-> state, index |-> i, kind |-> cbs[i]]>> \o rest.ran,
                escaped |-> rest.escaped]

executeStateCallbacks_abort(cbmap, state) == runCallbacks_abort(state, cbmap[state], 1)

executeStateCallbacks(cbmap, state) == runCallbacks(state, cbmap[state], 1)

\* this.session.start_time.getTime() is a TypeError on a string
updateStateData_throws(s, new_state) ==
  new_state = "conclusion" /\ ~s.start_time_is_Date

\* The session updateStateData leaves behind; when it throws, end_time is
\* assigned and nothing after it.
updateStateData(s, new_state, data, t) ==
  IF updateStateData_throws(s, new_state) THEN [s EXCEPT !.end_time = <<t>>]
  ELSE
  LET sd == s.state_data
      s1 ==
        CASE new_state = "conceptual_questions" ->
               [s EXCEPT !.state_data =
                  Merge(sd, [current_question_index |-> 0, questions_completed |-> 0])]
          [] new_state = "practical_tasks" ->
               [s EXCEPT !.state_data =
                  Merge(sd, [current_task_index |-> 0, tasks_completed |-> 0])]
          [] new_state = "conclusion" ->
               [s EXCEPT !.end_time = <<t>>,
                         !.total_duration = <<t - s.start_time>>]
          [] OTHER -> s
  IN IF data.present
     THEN [s1 EXCEPT !.state_data = Merge(s1.state_data, data.obj)]
     ELSE s1

\* the StateTransition record with from_state and to_state both the new state
makeTransition_same(currentState, new_state, data, t) ==
  [from_state |-> new_state, to_state |-> new_state, timestamp |-> t,
   trigger |-> triggerOf(data)]

makeTransition(currentState, new_state, data, t) ==
  [from_state |-> currentState, to_state |-> new_state, timestamp |-> t,
   trigger |-> triggerOf(data)]

\* The whole call, awaits included: [session, result, hooks].
transition_to(s, cbmap, new_state, data, t) ==
  LET currentState == s.current_state
  IN IF ~can_transition(s, new_state)
     THEN [session |-> s, result |-> FALSE, hooks |-> <<>>]
     ELSE
       LET pre == executeStateCallbacks(cbmap, currentState)
       IN IF pre.escaped
          THEN [session |-> s, result |-> FALSE, hooks |-> pre.ran]
          ELSE
            LET transition == makeTransition(currentState, new_state, data, t)
                s1 == [s EXCEPT !.current_state = new_state,
                                !.state_history = Append(@, transition)]
                s2 == updateStateData(s1, new_state, data, t)
                post == IF updateStateData_throws(s1, new_state)
                        THEN [ran |-> <<>>, escaped |-> TRUE]
                        ELSE executeStateCallbacks(cbmap, new_state)
            IN [session |-> s2, result |-> ~post.escaped,
                hooks |-> pre.ran \o post.ran]

\* autoProgress without its isCurrentStateComplete check
autoProgress_unchecked(s, cbmap, t) ==
  LET nextState == getNextState(s)
  IN IF nextState = <<>>
     THEN [session |-> s, result |-> FALSE, hooks |-> <<>>]
     ELSE transition_to(s, cbmap, nextState[1], Data([trigger |-> "auto_progress"]), t)

autoProgress(s, cbmap, t) ==
  IF ~isCurrentStateComplete(s, t)
  THEN [session |-> s, result |-> FALSE, hooks |-> <<>>]
  ELSE LET nextState == getNextState(s)
       IN IF nextState = <<>>
          THEN [session |-> s, result |-> FALSE, hooks |-> <<>>]
          ELSE transition_to(s, cbmap, nextState[1], Data([trigger |-> "auto_progress"]), t)

(***************************************************************************)
(* getProgressPercentage.  The result is a fraction, kept exact as         *)
(* num / den with den > 0.                                                 *)
(***************************************************************************)
stateWeights(state) ==
  CASE state = "introduction" -> 5
    [] state = "conceptual_questions" -> 30
    [] state = "practical_tasks" -> 50
    [] state = "feedback_generation" -> 10
    [] state = "conclusion" -> 5

stateOrder == stateFlow

RECURSIVE completedWeight(_)
\* the sum of the weights of stateOrder[i] for i below currentIndex
completedWeight(currentIndex) ==
  IF currentIndex <= 1 THEN 0
  ELSE stateWeights(stateOrder[currentIndex - 1]) + completedWeight(currentIndex - 1)

\* obj[k] || 1
NumOr1(obj, k) == IF Has(obj, k) /\ obj[k] # 0 THEN obj[k] ELSE 1

Fraction(num, den) == [num |-> num, den |-> den]

\* a + (completed / total) * weight
partial(a, completed, total, weight) == Fraction(a * total + completed * weight, total)

\* Math.min(100, x)
min100(x) == IF x.num > 100 * x.den THEN Fraction(100, 1) ELSE x

currentProgress(s, t) ==
  LET currentStateWeight == stateWeights(s.current_state)
      done == completedWeight(indexOf(stateOrder, s.current_state))
  IN CASE s.current_state = "conceptual_questions" ->
            partial(done, NumOr0(s.state_data, "questions_completed"),
                    NumOr1(s.state_data, "total_questions"), currentStateWeight)
       [] s.current_state = "practical_tasks" ->
            partial(done, NumOr0(s.state_data, "tasks_completed"),
                    NumOr1(s.state_data, "total_tasks"), currentStateWeight)
       [] OTHER ->
            Fraction(done + (IF isCurrentStateComplete(s, t)
                             THEN currentStateWeight ELSE 0), 1)

\* getProgressPercentage returning the sum as it is
getProgressPercentage_noMin(s, t) == currentProgress(s, t)

getProgressPercentage(s, t) == min100(currentProgress(s, t))

(***************************************************************************)
(* The manager's operations as actions                                     *)
(***************************************************************************)
NoCall == [op |-> "none", arg |-> "", result |-> FALSE, hooks |-> <<>>]

TransitionTo(new_state, data) ==
  LET r == transition_to(session, callbacks, new_state, data, now)
  IN /\ session' = r.session
     /\ last' = [op |-> "transition_to", arg |-> new_state, result |-> r.result,
                 hooks |-> r.hooks]
     /\ UNCHANGED <<callbacks, now>>
     /\ UNCHANGED otherThanMgr

AutoProgress ==
  LET r == autoProgress(session, callbacks, now)
  IN /\ session' = r.session
     /\ last' = [op |-> "autoProgress", arg |-> "", result |-> r.result,
                 hooks |-> r.hooks]
     /\ UNCHANGED <<callbacks, now>>
     /\ UNCHANGED otherThanMgr

UpdateConceptualProgress(n) ==
  /\ session' = [session EXCEPT !.conceptual_progress =
                   Merge(@, [questions_answered |-> n])]
  /\ last' = [op |-> "updateConceptualProgress", arg |-> "", result |-> FALSE,
              hooks |-> <<>>]
  /\ UNCHANGED <<callbacks, now>>
  /\ UNCHANGED otherThanMgr

UpdatePracticalProgress(n) ==
  /\ session' = [session EXCEPT !.practical_progress =
                   Merge(@, [tasks_completed |-> n])]
  /\ last' = [op |-> "updatePracticalProgress", arg |-> "", result |-> FALSE,
              hooks |-> <<>>]
  /\ UNCHANGED <<callbacks, now>>
  /\ UNCHANGED otherThanMgr

GetProgressPercentage ==
  /\ last' = [op |-> "getProgressPercentage", arg |-> "", result |-> FALSE,
              hooks |-> <<>>, value |-> getProgressPercentage(session, now)]
  /\ UNCHANGED <<session, callbacks, now>>
  /\ UNCHANGED otherThanMgr

RECURSIVE SumLen(_, _)
SumLen(cbmap, S) ==
  IF S = {} THEN 0
  ELSE LET st == CHOOSE x \in S : TRUE
       IN Len(cbmap[st]) + SumLen(cbmap, S \ {st})

AddStateCallback(state, kind) ==
  /\ SumLen(callbacks, States) < MaxCallbacks
  /\ callbacks' = [callbacks EXCEPT ![state] = Append(@, kind)]
  /\ last' = [op |-> "addStateCallback", arg |-> state, result |-> FALSE,
              hooks |-> <<>>]
  /\ UNCHANGED <<session, now>>
  /\ UNCHANGED otherThanMgr

Tick ==
  /\ now + TickStep <= MaxNow
  /\ now' = now + TickStep
  /\ last' = [op |-> "tick", arg |-> "", result |-> FALSE, hooks |-> <<>>]
  /\ UNCHANGED <<session, callbacks>>
  /\ UNCHANGED otherThanMgr

MgrInit ==
  /\ \E total \in Totals : session = createSession(total, total)
  /\ callbacks = initializeStateCallbacks
  /\ now = 0
  /\ last = NoCall
  /\ pending = <<>>

MgrNext ==
  \/ \E st \in States, d \in DataSet : TransitionTo(st, d)
  \/ AutoProgress
  \/ \E st \in HookStates, k \in CallbackKinds : AddStateCallback(st, k)
  \/ Tick

\* A manager constructed on a session that came over JSON, as
\* ExcelInterviewFlow constructs it.
RestoredInit ==
  /\ \E total \in Totals : session = sessionFromJSON(createSession(total, total))
  /\ callbacks = initializeStateCallbacks
  /\ now = 0
  /\ last = NoCall
  /\ pending = <<>>

RestoredNext ==
  \/ \E st \in States, d \in DataSet : TransitionTo(st, d)
  \/ \E st \in HookStates, k \in CallbackKinds : AddStateCallback(st, k)
  \/ Tick

\* the counts a caller reports with a transition: none, all, one too many
CountData ==
  {NoData, Data([trigger |-> "manual", feedback_generated |-> TRUE])}
    \cup {Data([questions_completed |-> c, tasks_completed |-> c]) :
            c \in 0..(MaxTotal + 1)}

ProgressNext ==
  \/ \E st \in States, d \in CountData : TransitionTo(st, d)
  \/ AutoProgress
  \/ GetProgressPercentage
  \/ \E n \in 0..MaxTotal : UpdateConceptualProgress(n)
  \/ \E n \in 0..MaxTotal : UpdatePracticalProgress(n)
  \/ Tick

(***************************************************************************)
(* Calls that overlap.  transition_to is async: it runs up to its first    *)
(* await when it is called, and the rest after the awaited hooks settle.   *)
(* A caller that does not await the promise starts the next call while the *)
(* call before is suspended at `await executeStateCallbacks(currentState)` *)
(* (pc "pre") or at `await executeStateCallbacks(new_state)` (pc "post").  *)
(* The hooks of one executeStateCallbacks are one await here: they do not  *)
(* touch the session.  A pending call records which calls were suspended   *)
(* at each await when it started.                                          *)
(***************************************************************************)
suspendedAt(calls, pc) == {k \in DOMAIN calls : calls[k].pc = pc}

\* the part of transition_to before its first await
transition_to_begin(s, cbmap, calls, op, new_state, data) ==
  [op |-> op, new_state |-> new_state, data |-> data,
   currentState |-> s.current_state,
   pc |-> IF can_transition(s, new_state) THEN "pre" ELSE "done",
   result |-> FALSE, pushed |-> FALSE,
   awaited |-> IF can_transition(s, new_state)
               THEN executeStateCallbacks(cbmap, s.current_state).ran ELSE <<>>,
   duringPre |-> suspendedAt(calls, "pre"),
   duringPost |-> suspendedAt(calls, "post")]

\* autoProgress returning false before it calls transition_to
autoProgress_refused(s, calls) ==
  [op |-> "autoProgress", new_state |-> "", data |-> NoData,
   currentState |-> s.current_state, pc |-> "done",
   result |-> FALSE, pushed |-> FALSE, awaited |-> <<>>,
   duringPre |-> suspendedAt(calls, "pre"),
   duringPost |-> suspendedAt(calls, "post")]

autoProgress_begin(s, cbmap, calls, t) ==
  IF ~isCurrentStateComplete(s, t) \/ getNextState(s) = <<>>
  THEN autoProgress_refused(s, calls)
  ELSE transition_to_begin(s, cbmap, calls, "autoProgress", getNextState(s)[1],
                           Data([trigger |-> "auto_progress"]))

\* the transition pushed to state_history while current_state stays
recordTransition_historyOnly(s, currentState, new_state, data, t) ==
  updateStateData(
    [s EXCEPT !.state_history =
                Append(@, makeTransition(currentState, new_state, data, t))],
    new_state, data, t)

\* transition_to between its two awaits
recordTransition(s, currentState, new_state, data, t) ==
  updateStateData(
    [s EXCEPT !.current_state = new_state,
              !.state_history =
                Append(@, makeTransition(currentState, new_state, data, t))],
    new_state, data, t)

StartTransitionTo(new_state, data) ==
  /\ Len(pending) < MaxCalls
  /\ pending' = Append(pending,
                  transition_to_begin(session, callbacks, pending, "transition_to",
                                      new_state, data))
  /\ UNCHANGED <<session, callbacks, now, last>>
  /\ UNCHANGED <<stored, inflight, flow, workspace, call, evalCall, evalPrev,
                 tracker, added, scored, response, config>>

StartAutoProgress ==
  /\ Len(pending) < MaxCalls
  /\ pending' = Append(pending, autoProgress_begin(session, callbacks, pending, now))
  /\ UNCHANGED <<session, callbacks, now, last>>
  /\ UNCHANGED <<stored, inflight, flow, workspace, call, evalCall, evalPrev,
                 tracker, added, scored, response, config>>

PreHooksSettle(k) ==
  /\ pending[k].pc = "pre"
  /\ session' = recordTransition(session, pending[k].currentState,
                                 pending[k].new_state, pending[k].data, now)
  /\ pending' = [pending EXCEPT
                   ![k].pc = "post", ![k].pushed = TRUE,
                   ![k].awaited = @ \o executeStateCallbacks(callbacks,
                                                            pending[k].new_state).ran]
  /\ UNCHANGED <<callbacks, now, last>>
  /\ UNCHANGED <<stored, inflight, flow, workspace, call, evalCall, evalPrev,
                 tracker, added, scored, response, config>>

PostHooksSettle(k) ==
  /\ pending[k].pc = "post"
  /\ pending' = [pending EXCEPT ![k].pc = "done", ![k].result = TRUE]
  /\ UNCHANGED <<session, callbacks, now, last>>
  /\ UNCHANGED <<stored, inflight, flow, workspace, call, evalCall, evalPrev,
                 tracker, added, scored, response, config>>

\* the data of the overlapping calls: none, or the counts that complete
\* the phase entered; the hooks are registered before the first call
OverlapData ==
  {NoData, Data([questions_completed |-> MaxTotal, tasks_completed |-> MaxTotal])}

OverlapNext ==
  \/ \E st \in States, d \in OverlapData : StartTransitionTo(st, d)
  \/ StartAutoProgress
  \/ \E k \in DOMAIN pending : PreHooksSettle(k)
  \/ \E k \in DOMAIN pending : PostHooksSettle(k)
  \/ \E st \in HookStates : pending = <<>> /\ AddStateCallback(st, "ok")
  \/ Tick

MgrIdle ==
  /\ session = createSession(0, 0)
  /\ callbacks = initializeStateCallbacks
  /\ now = 0
  /\ last = NoCall
  /\ pending = <<>>

(***************************************************************************)
(* The stored session: ExcelInterviewSessionService over the table         *)
(* excel_interview_session, the route /api/excel-interview-session, and    *)
(* the client ExcelInterviewFlow.  A stored transition is written without  *)
(* its timestamp, which nothing here reads.                                *)
(***************************************************************************)
NoRow == [exists |-> FALSE, current_state |-> "introduction", state_history |-> <<>>]

\* createSession: the insert of the sessionData ExcelInterviewFlow posts
insertSession(sessionData) ==
  [exists |-> TRUE, current_state |-> sessionData.current_state,
   state_history |-> sessionData.state_history]

\* the sessionData of initializeSession's create request
newSessionData == [current_state |-> "introduction", state_history |-> <<>>]

\* updateSession's update: each field of `updates` that is present (all the
\* values here are truthy) is copied into updateData and written in one update.
updateSession(row, updates) ==
  [row EXCEPT
     !.current_state =
        IF Has(updates, "current_state") THEN updates.current_state ELSE @,
     !.state_history =
        IF Has(updates, "state_history") THEN updates.state_history ELSE @]

\* recordStateTransition's update: current_state and the history it fetched
\* with the transition appended, in one update.
recordUpdate(row, read_history, transition) ==
  [row EXCEPT !.current_state = transition.to_state,
              !.state_history = Append(read_history, transition)]

\* the sessionData of transitionToNextState's update request
flowUpdateData(flowSession, currentState, nextState) ==
  [current_state |-> nextState,
   state_history |->
     Append(flowSession.state_history,
            [from_state |-> currentState, to_state |-> nextState,
             trigger |-> "manual_progression"])]

\* The transitions callers hand to recordStateTransition in the model.
RecTransitions ==
  {[from_state |-> "introduction", to_state |-> "conceptual_questions",
    trigger |-> "api"],
   [from_state |-> "conceptual_questions", to_state |-> "practical_tasks",
    trigger |-> "api"],
   [from_state |-> "introduction", to_state |-> "practical_tasks",
    trigger |-> "api"]}

\* The sessionData other clients post to the route's update action in the
\* model: updateSession takes a Partial<ExcelInterviewSession>.
RouteUpdates ==
  {[current_state |-> "practical_tasks"],
   [current_state |-> "conclusion"]}

NoFlowSession == [current_state |-> "introduction", state_history |-> <<>>]

\* initializeSession: the GET finds the row, or the create request inserts it;
\* on a failure onError is called and session stays null.
FlowInitialize(ok) ==
  /\ ~flow.loaded
  /\ IF ~ok THEN UNCHANGED <<stored, flow>>
     ELSE IF stored.exists
     THEN /\ flow' = [loaded |-> TRUE,
                      session |-> [current_state |-> stored.current_state,
                                   state_history |-> stored.state_history],
                      currentState |-> stored.current_state]
          /\ UNCHANGED stored
     ELSE /\ stored' = insertSession(newSessionData)
          /\ flow' = [loaded |-> TRUE, session |-> newSessionData,
                      currentState |-> "introduction"]
  /\ UNCHANGED inflight
  /\ UNCHANGED otherThanStore

\* transitionToNextState, from the Start Interview and Next Stage buttons (the
\* latter is disabled in conclusion).  outcome: "ok"; "db_error" (updateSession
\* returns null and the route still answers 200); "net_error" (fetch fails or
\* the route answers 500: onError).
FlowTransitionToNextState(outcome) ==
  /\ flow.loaded
  /\ flow.currentState # "conclusion"
  /\ LET nextState == getNextState(flow.session)
     IN IF nextState = <<>>
        THEN UNCHANGED <<stored, flow>>
        ELSE /\ stored' =
                  IF outcome = "ok" /\ stored.exists
                  THEN updateSession(stored,
                         flowUpdateData(flow.session, flow.currentState, nextState[1]))
                  ELSE stored
             /\ flow' =
                  IF outcome = "net_error" THEN flow
                  ELSE [flow EXCEPT !.currentState = nextState[1]]
  /\ UNCHANGED inflight
  /\ UNCHANGED otherThanStore

\* The page is closed or reloaded: the component's state is lost, and the next
\* mount starts from useState's initial values and runs initializeSession.
FlowUnmount ==
  /\ flow.loaded
  /\ Len(stored.state_history) < MaxHistory
  /\ flow' = [loaded |-> FALSE, session |-> NoFlowSession,
              currentState |-> "introduction"]
  /\ UNCHANGED <<stored, inflight>>
  /\ UNCHANGED otherThanStore

\* The route's update action with the sessionData of another client.
RouteUpdate(updates, ok) ==
  /\ stored.exists
  /\ stored' = IF ok THEN updateSession(stored, updates) ELSE stored
  /\ UNCHANGED <<inflight, flow>>
  /\ UNCHANGED otherThanStore

\* recordStateTransition up to its fetch (a failed fetch returns false).
RecordFetch(transition) ==
  /\ stored.exists
  /\ Len(stored.state_history) < MaxHistory
  /\ Cardinality(inflight) < MaxInflight
  /\ inflight' = inflight \cup
       {[read_history |-> stored.state_history, transition |-> transition]}
  /\ UNCHANGED <<stored, flow>>
  /\ UNCHANGED otherThanStore

\* recordStateTransition from its fetch on: the update, which may fail.
RecordUpdate(rec, ok) ==
  /\ rec \in inflight
  /\ inflight' = inflight \ {rec}
  /\ stored' = IF ok /\ stored.exists
               THEN recordUpdate(stored, rec.read_history, rec.transition)
               ELSE stored
  /\ UNCHANGED flow
  /\ UNCHANGED otherThanStore

StoreInit ==
  /\ stored = NoRow
  /\ inflight = {}
  /\ flow = [loaded |-> FALSE, session |-> NoFlowSession,
             currentState |-> "introduction"]

StoreNext ==
  \/ \E ok \in BOOLEAN : FlowInitialize(ok)
  \/ \E outcome \in {"ok", "db_error", "net_error"} : FlowTransitionToNextState(outcome)
  \/ FlowUnmount
  \/ \E u \in RouteUpdates, ok \in BOOLEAN : RouteUpdate(u, ok)
  \/ \E t \in RecTransitions : RecordFetch(t)
  \/ \E rec \in inflight, ok \in BOOLEAN : RecordUpdate(rec, ok)

(***************************************************************************)
(* The practical task: SpreadsheetWorkspace and its parent                 *)
(* ExcelInterviewCall.  React state is what the last committed render      *)
(* shows; a handler reads the state captured by the render that created    *)
(* it.  State set from the interval callback is queued and committed by a  *)
(* later render; state set from a click is committed before the next event.*)
(***************************************************************************)
tasks == <<"t1">>

\* A list of several tasks: the handlers of ExcelInterviewCall step through
\* tasks by index and are written for any length.
severalTasks == <<"t1", "t2">>

required_functions == {"SUM", "AVERAGE", "VLOOKUP"}

Formulas == {"", "SUM"}

\* What the render at mount captured: the interval callback keeps calling the
\* handleTimeUp of this render, since the effect depends on isCompleted only.
\* `task` is the index of the task the parent's render passed down, which is
\* also the currentTaskIndex its onTaskComplete captured.
mountRender(ws) ==
  [isCompleted |-> FALSE, currentData |-> "task.initial_data",
   task |-> ws.mountTask]

committedRender(ws) ==
  [isCompleted |-> ws.isCompleted, currentData |-> ws.currentData,
   task |-> ws.task]

\* The cells an object of type SpreadsheetData shows, had setCellValue
\* copied the sheets it writes to: the object task.initial_data would keep
\* the cells the task started with.
cellsOf_copied(ws, data) ==
  IF data = "task.initial_data" THEN "initial" ELSE ws.sheets

\* The cells an object of type SpreadsheetData shows.  currentData is the
\* object task.initial_data until the first edit and a shallow copy
\* ({ ...currentData }) after it; every copy holds the sheets array of
\* task.initial_data, whose rows setCellValue writes in place.
cellsOf(ws, data) == ws.sheets

evaluateTask(taskId, initialState, finalState, userActions, formulasUsed) ==
  [task_id |-> taskId, initial_state |-> initialState,
   final_state |-> finalState,
   user_actions |-> userActions, formulas_used |-> formulasUsed]

\* completion in percent; the share of the required functions is rounded
\* down, which leaves the comparison with 30 as it is.
updateCompletionPercentage(ws, render) ==
  LET used == Cardinality(ws.formulasUsed \cap required_functions)
      completion ==
        (IF ws.actions * 5 < 30 THEN ws.actions * 5 ELSE 30)
        + ((used * 40) \div Cardinality(required_functions))
        + (IF \/ render.currentData # "task.initial_data"
              \/ render.task # ws.mountTask
           THEN 20 ELSE 0)
  IN  IF completion < 100 THEN completion ELSE 100

\* ExcelInterviewCall.handleTaskComplete: the result is appended whatever
\* taskResults already holds; currentTaskIndex is the one captured by the
\* parent's render that created the handler.
handleTaskComplete(c, result, currentTaskIndex) ==
  IF currentTaskIndex < Len(c.tasks) - 1
  THEN [c EXCEPT !.taskResults = Append(@, result),
                 !.currentTaskIndex = currentTaskIndex + 1]
  ELSE [c EXCEPT !.taskResults = Append(@, result),
                 !.currentState = "feedback_generation",
                 !.timeouts = @ + 1]

handleManualTaskComplete(c) ==
  IF c.currentTaskIndex < Len(c.tasks) - 1
  THEN [c EXCEPT !.currentTaskIndex = @ + 1]
  ELSE [c EXCEPT !.currentState = "feedback_generation",
                 !.timeouts = @ + 1]

\* SpreadsheetWorkspace.handleCompleteTask run with the state captured by
\* `render`: the pair of the workspace and the parent after the call.  The
\* initial_data of a task other than the one the workspace was mounted with
\* is an object no edit has written to.
handleCompleteTask(ws, c, render) ==
  IF render.isCompleted
  THEN [ws |-> ws, call |-> c]
  ELSE [ws |-> [ws EXCEPT !.queued = TRUE],
        call |-> handleTaskComplete(c,
                   evaluateTask(c.tasks[render.task + 1],
                                IF render.task = ws.mountTask
                                THEN cellsOf(ws, "task.initial_data")
                                ELSE "initial",
                                cellsOf(ws, render.currentData),
                                ws.actions, ws.formulasUsed),
                   render.task)]

handleTimeUp(ws, c, render) ==
  IF ~render.isCompleted THEN handleCompleteTask(ws, c, render)
                         ELSE [ws |-> ws, call |-> c]

\* The render that commits the queued state: isCompleted becomes true, the
\* effect's cleanup clears the interval, and the workspace leaves the page
\* when the parent no longer shows the practical tasks.  The workspace is
\* rendered without a key: with another task it is the same instance, with
\* the state it has.
commit(ws, c) ==
  [ws EXCEPT !.isCompleted = @ \/ ws.queued,
             !.queued = FALSE,
             !.task = c.currentTaskIndex,
             !.timer = @ /\ ~ws.queued /\ c.currentState = "practical_tasks",
             !.mounted = c.currentState = "practical_tasks"]

\* A cell edit in the grid (setCellValue): the cell is written in place,
\* then onDataChange with the shallow copy, then onActionPerformed.  The last
\* updateCompletionPercentage to run is the one of the committed render.  No
\* edit fits between the interval callback and the render it scheduled.
WorkspaceAction(formula) ==
  /\ workspace.mounted
  /\ ~workspace.isCompleted
  /\ ~workspace.queued
  /\ workspace.actions < MaxActions
  /\ LET tracked == [workspace EXCEPT
                       !.actions = @ + 1,
                       !.formulasUsed = IF formula = "" THEN @
                                        ELSE @ \cup {formula}]
     IN  workspace' = [tracked EXCEPT
                         !.currentData = "copy",
                         !.sheets = "edited",
                         !.completionPercentage =
                           updateCompletionPercentage(tracked,
                             committedRender(workspace))]
  /\ UNCHANGED call
  /\ UNCHANGED otherThanTask

\* The interval callback with more than a second left.
TimerTick ==
  /\ workspace.timer
  /\ workspace.timeRemaining > 1
  /\ workspace' = [workspace EXCEPT !.timeRemaining = @ - 1]
  /\ UNCHANGED call
  /\ UNCHANGED otherThanTask

\* The interval callback with a second or less left: handleTimeUp of the
\* mount render.  What it sets is queued until the next render.
TimerTimeUp ==
  /\ workspace.timer
  /\ workspace.timeRemaining <= 1
  /\ ~workspace.queued
  /\ LET r == handleTimeUp(workspace, call, mountRender(workspace))
     IN  /\ workspace' = [r.ws EXCEPT !.timeRemaining = 0]
         /\ call' = r.call
  /\ UNCHANGED otherThanTask

\* The render React scheduled for the state queued by the interval callback.
WorkspaceRender ==
  /\ workspace.queued
  /\ workspace' = commit(workspace, call)
  /\ UNCHANGED call
  /\ UNCHANGED otherThanTask

\* A click on Complete Task, shown by the committed render while the task is
\* not completed and more than 30 percent done.
ClickCompleteTask ==
  /\ workspace.mounted
  /\ ~workspace.isCompleted
  /\ workspace.completionPercentage > 30
  /\ LET r == handleCompleteTask(workspace, call, committedRender(workspace))
     IN  /\ workspace' = commit(r.ws, r.call)
         /\ call' = r.call
  /\ UNCHANGED otherThanTask

\* A click on the parent's Skip to Next Task / Complete Interview button.
ClickManualTaskComplete ==
  /\ workspace.mounted
  /\ call' = handleManualTaskComplete(call)
  /\ workspace' = commit(workspace, call')
  /\ UNCHANGED otherThanTask

\* The timeout set by the parent with the last task: on to the conclusion.
FeedbackTimeout ==
  /\ call.timeouts > 0
  /\ call' = [call EXCEPT !.currentState = "conclusion", !.timeouts = @ - 1]
  /\ workspace' = IF workspace.queued THEN workspace
                                      ELSE commit(workspace, call')
  /\ UNCHANGED otherThanTask

\* SpreadsheetWorkspace as its useState initialisers and its mount effect
\* leave it, mounted by the parent's render `c`.
mount(c) ==
  [mounted |-> TRUE, currentData |-> "task.initial_data",
   sheets |-> "initial",
   timeRemaining |-> TimeLimit, isCompleted |-> FALSE,
   completionPercentage |-> 0, actions |-> 0,
   formulasUsed |-> {}, timer |-> TRUE, queued |-> FALSE,
   task |-> c.currentTaskIndex, mountTask |-> c.currentTaskIndex]

\* The parent's render after it set its own state: the workspace is mounted
\* when the phase becomes practical_tasks, and committed otherwise.
renderStateContent(ws, c) ==
  IF c.currentState = "practical_tasks" /\ ~ws.mounted THEN mount(c)
                                                        ELSE commit(ws, c)

\* The candidate is on the practical tasks (the state the parent is in after
\* the voice interview).
onPracticalTasks(taskList) ==
  [currentState |-> "practical_tasks", currentTaskIndex |-> 0,
   taskResults |-> <<>>, timeouts |-> 0, tasks |-> taskList,
   voice |-> "ended", phaseTimers |-> 0]

TaskInit ==
  /\ call = onPracticalTasks(tasks)
  /\ workspace = mount(call)

TaskNext ==
  \/ \E f \in Formulas : WorkspaceAction(f)
  \/ TimerTick
  \/ TimerTimeUp
  \/ WorkspaceRender
  \/ ClickCompleteTask
  \/ ClickManualTaskComplete
  \/ FeedbackTimeout

(***************************************************************************)
(* ExcelInterviewCall from the introduction on: the voice interview and    *)
(* the phase it shows.  voice is "idle" before Start, "starting" while     *)
(* startExcelInterview awaits startCall and createResponse, "calling"      *)
(* while the call is on, "stopping" between stopCall and the call_ended    *)
(* event, "ended" after it.  phaseTimers counts the pending 2000 ms        *)
(* timeouts whose callback is setCurrentState('practical_tasks').          *)
(***************************************************************************)
onIntroduction(taskList) ==
  [currentState |-> "introduction", currentTaskIndex |-> 0,
   taskResults |-> <<>>, timeouts |-> 0, tasks |-> taskList,
   voice |-> "idle", phaseTimers |-> 0]

\* startExcelInterview up to the call it registered: with an access token
\* the phase becomes conceptual_questions and startCall is awaited; without
\* one, or when a request fails, the catch block sets practical_tasks.
StartExcelInterview(registered) ==
  /\ call.currentState = "introduction"
  /\ call.voice = "idle"
  /\ call' = IF registered
             THEN [call EXCEPT !.currentState = "conceptual_questions",
                               !.voice = "starting"]
             ELSE [call EXCEPT !.currentState = "practical_tasks",
                               !.voice = "ended"]
  /\ workspace' = renderStateContent(workspace, call')
  /\ UNCHANGED otherThanTask

\* The rest of startExcelInterview: startCall and createResponse succeed,
\* startCall rejects (no call), or createResponse rejects (the call is on);
\* a rejection reaches the catch block.
StartCallSettles(outcome) ==
  /\ call.voice = "starting"
  /\ call' = CASE outcome = "started" -> [call EXCEPT !.voice = "calling"]
               [] outcome = "startCall_failed" ->
                    [call EXCEPT !.currentState = "practical_tasks",
                                 !.voice = "ended"]
               [] outcome = "createResponse_failed" ->
                    [call EXCEPT !.currentState = "practical_tasks",
                                 !.voice = "calling"]
  /\ workspace' = renderStateContent(workspace, call')
  /\ UNCHANGED otherThanTask

\* End & Continue to Tasks, shown with the conceptual questions.
EndVoiceInterview ==
  /\ call.currentState = "conceptual_questions"
  /\ call.voice = "calling"
  /\ call' = [call EXCEPT !.voice = "stopping", !.phaseTimers = @ + 1]
  /\ UNCHANGED workspace
  /\ UNCHANGED otherThanTask

\* webClient's call_ended event: the call was stopped or ended by itself.
CallEnded ==
  /\ call.voice \in {"calling", "stopping"}
  /\ call' = [call EXCEPT !.voice = "ended", !.phaseTimers = @ + 1]
  /\ UNCHANGED workspace
  /\ UNCHANGED otherThanTask

\* webClient's error event: the listener stops the call.
CallError ==
  /\ call.voice = "calling"
  /\ call' = [call EXCEPT !.voice = "stopping", !.phaseTimers = @ + 1]
  /\ UNCHANGED workspace
  /\ UNCHANGED otherThanTask

\* A 2000 ms timeout of the listeners or of endVoiceInterview fires.
PhaseTimeout ==
  /\ call.phaseTimers > 0
  /\ call' = [call EXCEPT !.currentState = "practical_tasks",
                          !.phaseTimers = @ - 1]
  /\ workspace' = renderStateContent(workspace, call')
  /\ UNCHANGED otherThanTask

StartOutcomes == {"started", "startCall_failed", "createResponse_failed"}

InterviewInit ==
  /\ call = onIntroduction(severalTasks)
  /\ workspace = [mount(call) EXCEPT !.mounted = FALSE, !.timer = FALSE]

InterviewNext ==
  \/ \E registered \in BOOLEAN : StartExcelInterview(registered)
  \/ \E outcome \in StartOutcomes : StartCallSettles(outcome)
  \/ EndVoiceInterview
  \/ CallEnded
  \/ CallError
  \/ PhaseTimeout
  \/ \E f \in Formulas : WorkspaceAction(f)
  \/ TimerTick
  \/ TimerTimeUp
  \/ WorkspaceRender
  \/ ClickCompleteTask
  \/ ClickManualTaskComplete
  \/ FeedbackTimeout

(***************************************************************************)
(* Spreadsheet utilities (lib/spreadsheet-utils.ts): the formula parser on *)
(* the formulas of the model, the action tracker, the comparison of two    *)
(* snapshots and the rule-based task evaluator.                            *)
(***************************************************************************)
formulaSUM == "=SUM(A1:A3)"

formulaAVERAGE == "=AVERAGE(B1:B3)"

formulaVLOOKUP == "=VLOOKUP(A1,B1:C3,2,FALSE)"

formulaINDEX == "=INDEX(A1:A10,MATCH(1,B1:B10,0))"

FormulaTexts == {formulaSUM, formulaAVERAGE, formulaVLOOKUP, formulaINDEX}

\* FormulaParser.parseFormula(formula).functions: the names followed by an
\* opening parenthesis, in order; none for a text that does not start with =
parseFormula(formula) ==
  CASE formula = formulaSUM -> <<"SUM">>
    [] formula = formulaAVERAGE -> <<"AVERAGE">>
    [] formula = formulaVLOOKUP -> <<"VLOOKUP">>
    [] formula = formulaINDEX -> <<"INDEX", "MATCH">>
    [] OTHER -> <<>>

\* formula.includes(func): on the formulas of the model a function name is
\* a substring of the text exactly when the parser finds it
formulaIncludes(formula, func) == includes(parseFormula(formula), func)

Range(seq) == {seq[i] : i \in DOMAIN seq}

RECURSIVE SelectFirsts(_, _)
\* arr.filter((x, index) => arr.indexOf(x) === index), after `seen`
SelectFirsts(seq, seen) ==
  IF seq = <<>> THEN <<>>
  ELSE IF seq[1] \in seen THEN SelectFirsts(Tail(seq), seen)
       ELSE <<seq[1]>> \o SelectFirsts(Tail(seq), seen \cup {seq[1]})

(* ActionTracker: `actions` is its private array *)
addAction(actions, action) == Append(actions, action)

getActions(actions) == actions

getActionsByType(actions, type) == SelectSeq(actions, LAMBDA a : a.type = type)

getFormulasUsed(actions) ==
  LET withFormula ==
        SelectSeq(actions, LAMBDA a : a.type = "formula_input" /\ a.formula # "")
  IN  SelectFirsts([i \in DOMAIN withFormula |-> withFormula[i].formula], {})

getFunctionsUsed(actions) ==
  LET formulas == getFormulasUsed(actions)
  IN  UNION {Range(parseFormula(formulas[i])) : i \in DOMAIN formulas}

getTimeSpent(actions) ==
  IF Len(actions) = 0 THEN 0
  ELSE actions[Len(actions)].timestamp - actions[1].timestamp

\* averageTimeBetweenActions is rounded down to whole milliseconds
getEfficiencyMetrics(actions) ==
  [totalActions |-> Len(actions),
   formulaActions |-> Len(getActionsByType(actions, "formula_input")),
   editActions |-> Len(getActionsByType(actions, "cell_edit")),
   averageTimeBetweenActions |->
     IF Len(actions) > 1 THEN getTimeSpent(actions) \div (Len(actions) - 1)
     ELSE 0]

clear(actions) == <<>>

(* SpreadsheetAnalyzer.  A snapshot is the sequence of its sheets, a sheet *)
(* the rows of its data, a row the sequence of its cells.                  *)
NoCell == [present |-> FALSE, f |-> "", v |-> 0]

Cell(v, f) == [present |-> TRUE, f |-> f, v |-> v]

\* sheet.data[r]?.[c], rows and columns counted from 1
cellAt(sheet, r, c) ==
  IF r <= Len(sheet) /\ c <= Len(sheet[r]) THEN sheet[r][c] ELSE NoCell

max(a, b) == IF a >= b THEN a ELSE b

min(a, b) == IF a <= b THEN a ELSE b

\* sheet.data[0]?.length || 0
firstRowLength(sheet) == IF Len(sheet) >= 1 THEN Len(sheet[1]) ELSE 0

RECURSIVE sheetChanges(_, _, _, _, _)
\* the two loops over r < maxRows and c < maxCols, for the cells numbered
\* lo..hi in the order the loops meet them (cell i is in row i \div maxCols
\* and column i % maxCols); the value of a missing cell is shown as 0
sheetChanges(initialSheet, finalSheet, maxCols, lo, hi) ==
  IF lo > hi THEN <<>>
  ELSE IF lo = hi
  THEN LET r == (lo \div maxCols) + 1
           c == (lo % maxCols) + 1
           initialCell == cellAt(initialSheet, r, c)
           finalCell == cellAt(finalSheet, r, c)
       IN  IF initialCell # finalCell
           THEN <<[cell |-> [row |-> r, col |-> c],
                   oldValue |-> initialCell.v, newValue |-> finalCell.v,
                   formula |-> finalCell.f]>>
           ELSE <<>>
  ELSE LET mid == (lo + hi) \div 2
       IN  sheetChanges(initialSheet, finalSheet, maxCols, lo, mid)
             \o sheetChanges(initialSheet, finalSheet, maxCols, mid + 1, hi)

RECURSIVE changedCellsFrom(_, _, _)
changedCellsFrom(initial, final, sheetIndex) ==
  IF sheetIndex > max(Len(initial), Len(final)) THEN <<>>
  ELSE IF sheetIndex > Len(initial) \/ sheetIndex > Len(final)
       THEN changedCellsFrom(initial, final, sheetIndex + 1)
       ELSE LET initialSheet == initial[sheetIndex]
                finalSheet == final[sheetIndex]
                maxRows == max(Len(initialSheet), Len(finalSheet))
                maxCols == max(firstRowLength(initialSheet),
                               firstRowLength(finalSheet))
            IN  sheetChanges(initialSheet, finalSheet, maxCols, 0, maxRows * maxCols - 1)
                  \o changedCellsFrom(initial, final, sheetIndex + 1)

\* the positions of `expected` that are graded, and those that are correct
gradedCells(actual, expected) ==
  UNION {UNION {{<<s, r, c>> : c \in 1..Len(expected[s][r])}
                  : r \in 1..Len(expected[s])}
           : s \in {x \in 1..Len(expected) : x <= Len(actual)}}

\* correctCells / totalCells * 100, rounded down
calculateAccuracy(actual, expected) ==
  LET totalCells == Cardinality(gradedCells(actual, expected))
      correctCells ==
        Cardinality({t \in gradedCells(actual, expected) :
                       LET actualCell == cellAt(actual[t[1]], t[2], t[3])
                       IN  /\ actualCell.present
                           /\ actualCell.v = expected[t[1]][t[2]][t[3]].v})
  IN  IF totalCells > 0 THEN (correctCells * 100) \div totalCells ELSE 0

efficientFunctions == <<"SUMPRODUCT", "INDEX", "MATCH", "VLOOKUP">>

\* calculateEfficiency without the bonus for the efficient functions
calculateEfficiency_noBonus(changedCells, formulas) ==
  LET score == IF Len(changedCells) > 10
               THEN 100 - (Len(changedCells) - 10) * 2 ELSE 100
  IN  max(0, min(100, score))

calculateEfficiency(changedCells, formulas) ==
  LET baseScore == 100
      penaltyPerExtraOperation == 2
      bonusForOptimalFormulas == 10
      penalised == IF Len(changedCells) > 10
                   THEN baseScore - (Len(changedCells) - 10) * penaltyPerExtraOperation
                   ELSE baseScore
      usedEfficientFunctions ==
        \E i \in DOMAIN formulas : \E j \in DOMAIN efficientFunctions :
          formulaIncludes(formulas[i], efficientFunctions[j])
      score == IF usedEfficientFunctions THEN penalised + bonusForOptimalFormulas
               ELSE penalised
  IN  max(0, min(100, score))

\* expected is <<>> with hasExpected false: no expected snapshot was passed
compareSpreadsheets(initial, final, hasExpected, expected) ==
  LET changedCells == changedCellsFrom(initial, final, 1)
      withFormula == SelectSeq(changedCells, LAMBDA ch : ch.formula # "")
      addedFormulas == [i \in DOMAIN withFormula |-> withFormula[i].formula]
  IN  [changedCells |-> changedCells,
       addedFormulas |-> addedFormulas,
       accuracy |-> IF hasExpected THEN calculateAccuracy(final, expected) ELSE 0,
       efficiency |-> IF hasExpected
                      THEN calculateEfficiency(changedCells, addedFormulas) ELSE 0]

(* TaskEvaluator *)
\* calculateBestPracticesScore with 10 points per missing required function
calculateBestPracticesScore_lightPenalty(actions, criteria) ==
  LET functions == getFunctionsUsed(actions)
      missingRequired == SelectSeq(criteria.required_formulas,
                                   LAMBDA func : func \notin functions)
      usedOptional == SelectSeq(criteria.optional_formulas,
                                LAMBDA func : func \in functions)
      rushing == getEfficiencyMetrics(actions).averageTimeBetweenActions < 1000
  IN  max(0, min(100, 100 - Len(missingRequired) * 10 + Len(usedOptional) * 10
                        - (IF rushing THEN 10 ELSE 0)))

calculateBestPracticesScore(actions, criteria) ==
  LET functions == getFunctionsUsed(actions)
      missingRequired == SelectSeq(criteria.required_formulas,
                                   LAMBDA func : func \notin functions)
      usedOptional == SelectSeq(criteria.optional_formulas,
                                LAMBDA func : func \in functions)
      rushing == getEfficiencyMetrics(actions).averageTimeBetweenActions < 1000
      score == 100 - Len(missingRequired) * 20 + Len(usedOptional) * 10
                 - (IF rushing THEN 10 ELSE 0)
  IN  max(0, min(100, score))

\* the sentences of the feedback, and the number of missing functions the
\* second one lists
generateTaskFeedback(analysis, actions, criteria) ==
  LET functions == getFunctionsUsed(actions)
      missingFunctions == SelectSeq(criteria.required_formulas,
                                    LAMBDA func : func \notin functions)
      sentences ==
        <<IF analysis.accuracy >= 90 THEN "Excellent accuracy in your solution!"
          ELSE IF analysis.accuracy >= 70
               THEN "Good accuracy, but there's room for improvement."
               ELSE "Your solution needs significant improvement in accuracy.">>
        \o (IF Len(missingFunctions) > 0
            THEN <<"Consider using these functions:">> ELSE <<>>)
        \o <<IF analysis.efficiency >= 80
             THEN "Your approach was efficient and well-structured."
             ELSE "Try to find more efficient ways to solve similar problems.">>
  IN  [parts |-> sentences, number |-> Len(missingFunctions)]

TaskEvaluator_evaluateTask(taskId, initialState, finalState, expectedSolution, userActions, criteria) ==
  LET analysis == compareSpreadsheets(initialState, finalState, TRUE,
                                      expectedSolution)
  IN  [task_id |-> taskId,
       initial_state |-> initialState,
       final_state |-> finalState,
       user_actions |-> userActions,
       formulas_used |-> getFormulasUsed(userActions),
       functions_used |-> getFunctionsUsed(userActions),
       completion_time |-> getTimeSpent(userActions),
       accuracy_score |-> analysis.accuracy,
       efficiency_score |-> analysis.efficiency,
       best_practices_score |-> calculateBestPracticesScore(userActions, criteria),
       task_feedback |-> generateTaskFeedback(analysis, userActions, criteria)]

(* Inputs of the utilities in the model *)
MaxLog == 3        \* actions added to one tracker
MaxRows == 2       \* rows of a sheet
MaxCols == 2       \* cells of a row
MaxResults == 3      \* task results saved for one response
ClockStep == 3       \* minutes the clock of the config manager advances in one step
MaxClock == 14       \* the config manager's clock stops here
MaxVersion == 1      \* updates of one skill configuration in the store
MaxChanged == 62   \* cells of the one row of a wide sheet

Stamps == {0, 500, 3000}

ActionTypes == {"cell_edit", "formula_input"}

\* the UserAction objects setCellValue builds
UserActions ==
  {[type |-> "cell_edit", timestamp |-> t, formula |-> ""] : t \in Stamps}
    \cup {[type |-> "formula_input", timestamp |-> t, formula |-> f] :
            t \in Stamps, f \in {formulaSUM, formulaINDEX}}

\* a log of formula inputs, `gap` milliseconds apart
logOf(formulas, gap) ==
  [i \in DOMAIN formulas |->
     [type |-> "formula_input", timestamp |-> (i - 1) * gap,
      formula |-> formulas[i]]]

FormulaLists ==
  {<<>>, <<formulaSUM>>, <<formulaVLOOKUP>>, <<formulaSUM, formulaAVERAGE>>,
   <<formulaSUM, formulaAVERAGE, formulaVLOOKUP>>,
   <<formulaSUM, formulaAVERAGE, formulaINDEX>>,
   <<formulaSUM, formulaAVERAGE, formulaVLOOKUP, formulaINDEX>>}

ActionLogs == {logOf(fs, gap) : fs \in FormulaLists, gap \in {500, 2000}}

\* evaluation_criteria of the task of ExcelInterviewCall, of the tests, and
\* of a generated task (no optional formulas)
Rubrics ==
  {[required_formulas |-> <<"SUM", "AVERAGE", "VLOOKUP">>,
    optional_formulas |-> <<"INDEX", "MATCH">>],
   [required_formulas |-> <<"SUM">>, optional_formulas |-> <<"AVERAGE">>],
   [required_formulas |-> <<"VLOOKUP">>, optional_formulas |-> <<>>]}

CellValues == {Cell(1, ""), Cell(2, formulaINDEX)}

RowsOf(values) == UNION {[1..k -> values] : k \in 0..MaxCols}

SheetsOf(values) == UNION {[1..k -> RowsOf(values)] : k \in 0..MaxRows}

\* snapshots of one sheet, and the snapshot without a sheet
InitialSnapshots == {<<sheet>> : sheet \in SheetsOf({Cell(1, "")})} \cup {<<>>}

FinalSnapshots == {<<sheet>> : sheet \in SheetsOf(CellValues)} \cup {<<>>}

ExpectedSolution == <<(<<(<<Cell(1, ""), Cell(2, formulaINDEX)>>)>>)>>

\* a sheet of one row with k cells; its first cell holds `formula`
WideSnapshot(k, formula) ==
  <<(<<[c \in 1..k |-> IF c = 1 THEN Cell(2, formula) ELSE Cell(1, "")]>>)>>

EmptySnapshot == <<(<<(<<>>)>>)>>

(* The tracker of a workspace.  `added` is every action handed to *)
(* addAction, in arrival order.                                   *)
AddAction(action) ==
  /\ Len(added) < MaxLog
  /\ tracker' = [actions |-> addAction(tracker.actions, action),
                 answer |-> [op |-> "addAction"]]
  /\ added' = Append(added, action)
  /\ UNCHANGED scored
  /\ UNCHANGED otherThanUtil

\* the tracker after a method that only reads it returned `value`
answered(op, value) == [tracker EXCEPT !.answer = [op |-> op, value |-> value]]

GetActions ==
  /\ tracker' = answered("getActions", getActions(tracker.actions))
  /\ UNCHANGED <<added, scored>>
  /\ UNCHANGED otherThanUtil

GetActionsByType(type) ==
  /\ tracker' = answered("getActionsByType",
                         getActionsByType(tracker.actions, type))
  /\ UNCHANGED <<added, scored>>
  /\ UNCHANGED otherThanUtil

GetFormulasUsed ==
  /\ tracker' = answered("getFormulasUsed", getFormulasUsed(tracker.actions))
  /\ UNCHANGED <<added, scored>>
  /\ UNCHANGED otherThanUtil

GetFunctionsUsed ==
  /\ tracker' = answered("getFunctionsUsed", getFunctionsUsed(tracker.actions))
  /\ UNCHANGED <<added, scored>>
  /\ UNCHANGED otherThanUtil

GetTimeSpent ==
  /\ tracker' = answered("getTimeSpent", getTimeSpent(tracker.actions))
  /\ UNCHANGED <<added, scored>>
  /\ UNCHANGED otherThanUtil

GetEfficiencyMetrics ==
  /\ tracker' = answered("getEfficiencyMetrics",
                         getEfficiencyMetrics(tracker.actions))
  /\ UNCHANGED <<added, scored>>
  /\ UNCHANGED otherThanUtil

Clear ==
  /\ tracker' = [actions |-> clear(tracker.actions), answer |-> [op |-> "clear"]]
  /\ UNCHANGED <<added, scored>>
  /\ UNCHANGED otherThanUtil

(* A call of SpreadsheetAnalyzer.compareSpreadsheets or of *)
(* TaskEvaluator.evaluateTask, and what it returned.       *)
CompareSpreadsheets(initial, final, hasExpected, expected) ==
  /\ scored' = [op |-> "compareSpreadsheets", initial |-> initial,
                final |-> final, hasExpected |-> hasExpected,
                result |-> compareSpreadsheets(initial, final, hasExpected,
                                               expected)]
  /\ UNCHANGED <<tracker, added>>
  /\ UNCHANGED otherThanUtil

EvaluateTask(finalState, userActions, criteria) ==
  /\ scored' = [op |-> "evaluateTask", userActions |-> userActions,
                criteria |-> criteria,
                result |-> TaskEvaluator_evaluateTask("t1", EmptySnapshot,
                             finalState, ExpectedSolution, userActions,
                             criteria)]
  /\ UNCHANGED <<tracker, added>>
  /\ UNCHANGED otherThanUtil

UtilInit ==
  /\ tracker = [actions |-> <<>>, answer |-> [op |-> "new"]]
  /\ added = <<>>
  /\ scored = [op |-> "none"]

TrackerNext ==
  \/ \E action \in UserActions : AddAction(action)
  \/ GetActions
  \/ \E type \in ActionTypes : GetActionsByType(type)
  \/ GetFormulasUsed
  \/ GetFunctionsUsed
  \/ GetTimeSpent
  \/ GetEfficiencyMetrics
  \/ Clear

\* comparisons of small, possibly jagged sheets
CompareNext ==
  \E initial \in InitialSnapshots : \E final \in FinalSnapshots :
    \E hasExpected \in BOOLEAN :
      CompareSpreadsheets(initial, final, hasExpected, ExpectedSolution)

\* comparisons with many changed cells, and evaluations of a task
ScoreNext ==
  \/ \E k \in 0..MaxChanged : \E formula \in {"", formulaSUM, formulaINDEX} :
       CompareSpreadsheets(EmptySnapshot, WideSnapshot(k, formula), TRUE,
                           ExpectedSolution)
  \/ \E finalState \in {EmptySnapshot, ExpectedSolution} :
       \E userActions \in ActionLogs : \E criteria \in Rubrics :
         EvaluateTask(finalState, userActions, criteria)

(***************************************************************************)
(* The evaluation service (services/excel-evaluation.service.ts) and the   *)
(* text evaluator behind its OpenAI client.  One attempt of a request ends *)
(* with an error or with a completion; the client retries a retryable      *)
(* error up to maxRetries times before it rejects.                         *)
(***************************************************************************)
maxRetries == 3

ErrorKinds == {"retryable_error", "timeout", "fatal_error"}

isRetryable(error) == error \in {"retryable_error", "timeout"}

jsonFull == "{score,feedback,accuracyScore,efficiencyScore,bestPracticesScore}"

\* an answer in the JSON format whose numbers are not within 0..100
jsonExcess == "{feedback,accuracyScore:150,efficiencyScore:-20,bestPracticesScore:100}"

\* completion.choices[0]?.message?.content of a completion
Contents == {"", " ", "{oops", "null", "{}", jsonFull, jsonExcess, "Well done."}

Failed(error) == [error |-> error, hasContent |-> FALSE, content |-> ""]

Completed(hasContent, content) ==
  [error |-> "", hasContent |-> hasContent, content |-> content]

Outcomes ==
  {Failed(e) : e \in ErrorKinds}
    \cup {Completed(FALSE, "")}
    \cup {Completed(TRUE, c) : c \in Contents}

\* JSON.parse on the contents of the model: ok is false where it throws
JSONparse(raw) ==
  CASE raw = "null" -> [ok |-> TRUE, isObject |-> FALSE, obj |-> [k \in {} |-> 0]]
    [] raw = "{}" -> [ok |-> TRUE, isObject |-> TRUE, obj |-> [k \in {} |-> 0]]
    [] raw = jsonFull ->
         [ok |-> TRUE, isObject |-> TRUE,
          obj |-> [score |-> 70, feedback |-> "Good answer.",
                   accuracyScore |-> 70, efficiencyScore |-> 60,
                   bestPracticesScore |-> 50]]
    [] raw = jsonExcess ->
         [ok |-> TRUE, isObject |-> TRUE,
          obj |-> [feedback |-> "Outstanding.",
                   accuracyScore |-> 150, efficiencyScore |-> -20,
                   bestPracticesScore |-> 100]]
    [] OTHER -> [ok |-> FALSE, isObject |-> FALSE, obj |-> [k \in {} |-> 0]]

trim(text) == IF text = " " THEN "" ELSE text

\* the part of a try block up to the parsed object: thrown is true when the
\* request rejected, the content was missing or empty, JSON.parse threw or
\* the parsed value has no properties to read
parsedResponse(outcome) ==
  IF outcome.error # "" \/ ~outcome.hasContent \/ outcome.content = ""
  THEN [thrown |-> TRUE, obj |-> [k \in {} |-> 0]]
  ELSE LET parsed == JSONparse(outcome.content)
       IN  [thrown |-> ~parsed.ok \/ ~parsed.isObject, obj |-> parsed.obj]

\* a feedback text: its sentences or fragments in order, and the number a
\* template puts into them
Text(text) == [parts |-> <<text>>, number |-> 0]

Templated(parts, number) == [parts |-> parts, number |-> number]

isEmptyText(feedback) ==
  \A i \in 1..Len(feedback.parts) : feedback.parts[i] = ""

TextOr(obj, k, default) ==
  IF Has(obj, k) /\ obj[k] # "" THEN Text(obj[k]) ELSE Text(default)

evaluateConceptualResponse(outcome) ==
  LET r == parsedResponse(outcome)
  IN  IF r.thrown
      THEN [score |-> 0, feedback |-> Text("Error occurred during evaluation")]
      ELSE [score |-> NumOr0(r.obj, "score"),
            feedback |-> TextOr(r.obj, "feedback", "No feedback provided")]

\* TaskEvaluator.evaluateTask as evaluatePracticalTask calls it
ruleBasedResult(input) ==
  TaskEvaluator_evaluateTask(input.task.id, input.initialState,
                             input.finalState, input.task.expected_outcome,
                             input.userActions, input.task.evaluation_criteria)

analyzeSpreadsheetWork(outcome) ==
  LET r == parsedResponse(outcome)
  IN  IF r.thrown
      THEN [feedback |-> Text("Error occurred during analysis"),
            accuracyScore |-> 0, efficiencyScore |-> 0, bestPracticesScore |-> 0]
      ELSE [feedback |-> TextOr(r.obj, "feedback", "No feedback provided"),
            accuracyScore |-> NumOr0(r.obj, "accuracyScore"),
            efficiencyScore |-> NumOr0(r.obj, "efficiencyScore"),
            bestPracticesScore |-> NumOr0(r.obj, "bestPracticesScore")]

\* evaluatePracticalTask.  analyzeSpreadsheetWork catches the errors of its
\* request, so the catch of evaluatePracticalTask is not reached by an
\* evaluator failure; it is reached when analyzeSpreadsheetWork throws while
\* it builds its prompt (task.required_functions.join on a task without
\* required_functions), before any request.
evaluatePracticalTask(input, outcome) ==
  LET basicResult == ruleBasedResult(input)
      enhancedAnalysis == analyzeSpreadsheetWork(outcome)
  IN  IF ~input.task.has_required_functions
      THEN ruleBasedResult(input)
      ELSE [basicResult EXCEPT
              !.completion_time = input.completionTime,
              !.task_feedback = enhancedAnalysis.feedback,
              !.accuracy_score = enhancedAnalysis.accuracyScore,
              !.efficiency_score = enhancedAnalysis.efficiencyScore,
              !.best_practices_score = enhancedAnalysis.bestPracticesScore]

skillLevels == <<"basic", "intermediate", "advanced">>

\* ExcelSkillConfigService.getRecommendedLevel; advanced is the number of
\* functionsUsed among VLOOKUP, INDEX, MATCH, INDIRECT, OFFSET, SUMPRODUCT
getRecommendedLevel(currentLevel, performanceScore, advanced, configFound) ==
  IF ~configFound THEN currentLevel
  ELSE IF performanceScore > 85 /\ currentLevel = "basic" /\ advanced > 0
       THEN "intermediate"
  ELSE IF performanceScore > 85 /\ currentLevel = "intermediate" /\ advanced > 2
       THEN "advanced"
  ELSE IF performanceScore < 60 /\ currentLevel = "advanced" THEN "intermediate"
  ELSE IF performanceScore < 60 /\ currentLevel = "intermediate" THEN "basic"
  ELSE currentLevel

\* overallScore of generateExcelAnalytics; the inputs of the model keep the
\* two divisions exact
overallScoreOf(input) ==
  LET conceptualScore == input.conceptual
      practicalScore == (input.accuracy + input.efficiency + input.best_practices) \div 3
  IN  (conceptualScore + practicalScore) \div 2

\* generateOverallFeedback without its catch and its default sentence
generateOverallFeedback_bare(skillLevel, overallScore, outcome) ==
  Text(IF outcome.hasContent THEN trim(outcome.content) ELSE "")

generateOverallFeedback(skillLevel, overallScore, outcome) ==
  IF outcome.error # ""
  THEN Templated(<<"You demonstrated", skillLevel,
                   "level Excel skills with an overall score of", "%.",
                   "Continue practicing to improve your proficiency.">>,
                 overallScore)
  ELSE IF outcome.hasContent /\ trim(outcome.content) # ""
       THEN Text(trim(outcome.content))
       ELSE Text("Overall performance evaluation completed.")

\* A JavaScript number of the scores: finite, or NaN.
Num(v) == [v |-> v, nan |-> FALSE]

NaN == [v |-> 0, nan |-> TRUE]

\* a / b where a is a sum of scores and b a count: 0 / 0 is NaN
divide(a, b) == IF b = 0 THEN NaN ELSE Num(a \div b)

halfSum(x, y) == IF x.nan \/ y.nan THEN NaN ELSE Num((x.v + y.v) \div 2)

RECURSIVE sumOf(_, _)
\* results.reduce((sum, r) => sum + r[k], 0)
sumOf(results, k) ==
  IF results = <<>> THEN 0
  ELSE results[1][k] + sumOf(Tail(results), k)

skillCategories ==
  {"formula_accuracy", "data_analysis", "efficiency", "best_practices",
   "presentation", "problem_solving"}

\* the scores of analyzeSkillBreakdown; categoryScores is the object
\* conceptualProgress.category_scores
analyzeSkillBreakdown(spreadsheetResults, categoryScores) ==
  LET n == Len(spreadsheetResults)
      avgAccuracy == divide(sumOf(spreadsheetResults, "accuracy_score"), n)
      avgEfficiency == divide(sumOf(spreadsheetResults, "efficiency_score"), n)
      avgBestPractices == divide(sumOf(spreadsheetResults, "best_practices_score"), n)
  IN  [formula_accuracy |-> avgAccuracy,
       data_analysis |-> Num(NumOr0(categoryScores, "Data Analysis")),
       efficiency |-> avgEfficiency,
       best_practices |-> avgBestPractices,
       presentation |-> Num(75),
       problem_solving |-> halfSum(avgAccuracy, avgEfficiency)]

\* the catch of generateExcelAnalytics
generateBasicAnalytics(input) ==
  LET overallScore == (input.conceptual + input.accuracy) \div 2
  IN  [overall_score |-> overallScore,
       overall_feedback |->
         Templated(<<"You demonstrated", input.skillLevel,
                     "level Excel skills with an overall score of", "%.">>,
                   overallScore),
       recommended_level |-> input.skillLevel,
       excel_skill_breakdown |->
         [formula_accuracy |-> Num(input.accuracy),
          data_analysis |-> Num(70),
          efficiency |-> Num(input.efficiency),
          best_practices |-> Num(input.best_practices),
          presentation |-> Num(70),
          problem_solving |-> Num(overallScore)]]

generateExcelAnalytics(input, outcome) ==
  LET overallScore == overallScoreOf(input)
  IN  [overall_score |-> overallScore,
       overall_feedback |->
         generateOverallFeedback(input.skillLevel, overallScore, outcome),
       recommended_level |->
         getRecommendedLevel(input.skillLevel, overallScore, input.advanced,
                             input.configFound),
       excel_skill_breakdown |->
         analyzeSkillBreakdown(input.spreadsheetResults, input.category_scores)]

Scores == {40, 80, 90}

ConceptualInputs == {[question |-> "q1"]}

\* the task of a request: with has_required_functions false its
\* required_functions is missing
PracticalTasks ==
  {[id |-> "t1", has_required_functions |-> h,
    expected_outcome |-> ExpectedSolution, evaluation_criteria |-> criteria] :
     h \in BOOLEAN,
     criteria \in {[required_formulas |-> <<"SUM", "AVERAGE", "VLOOKUP">>,
                    optional_formulas |-> <<"INDEX", "MATCH">>]}}

\* completionTime is the time on the caller's clock, in milliseconds
PracticalInputs ==
  [task : PracticalTasks, initialState : {EmptySnapshot},
   finalState : {EmptySnapshot, ExpectedSolution},
   userActions : {logOf(<<>>, 2000), logOf(<<formulaSUM, formulaINDEX>>, 500),
                  logOf(<<formulaSUM, formulaAVERAGE, formulaVLOOKUP>>, 2000)},
   completionTime : {900000}]

\* the task results of a session with no finished task and with one
ResultLists(sc) ==
  {<<>>, <<[accuracy_score |-> sc, efficiency_score |-> sc,
            best_practices_score |-> sc]>>}

\* conceptualProgress.category_scores without and with 'Data Analysis'
CategoryScores(sc) == {[c \in {} |-> 0], [c \in {"Data Analysis"} |-> sc]}

\* wellFormed is false for a body whose practicalProgress lacks
\* functions_demonstrated: building the prompt throws before any request
AnalyticsInputs ==
  {[skillLevel |-> l, conceptual |-> sc, accuracy |-> sc, efficiency |-> sc,
    best_practices |-> sc, advanced |-> a, configFound |-> f,
    spreadsheetResults |-> rs, category_scores |-> cs,
    wellFormed |-> TRUE] :
     l \in {skillLevels[i] : i \in DOMAIN skillLevels}, sc \in Scores,
     a \in {0, 3}, f \in BOOLEAN, rs \in ResultLists(80),
     cs \in CategoryScores(80)}
  \cup
  {[skillLevel |-> l, conceptual |-> 40, accuracy |-> 40, efficiency |-> 40,
    best_practices |-> 40, advanced |-> 0, configFound |-> TRUE,
    spreadsheetResults |-> <<>>, category_scores |-> [c \in {} |-> 0],
    wellFormed |-> FALSE] : l \in {skillLevels[i] : i \in DOMAIN skillLevels}}

InputsOf(kind) ==
  CASE kind = "conceptual" -> ConceptualInputs
    [] kind = "practical" -> PracticalInputs
    [] kind = "analytics" -> AnalyticsInputs

EvalKinds == {"conceptual", "practical", "analytics"}

NoValue == [none |-> TRUE]

\* does the call make a request to the evaluator at all
requests(kind, input) ==
  CASE kind = "conceptual" -> TRUE
    [] kind = "practical" -> input.task.has_required_functions
    [] kind = "analytics" -> input.wellFormed

\* what the call returns once its request has settled with `outcome`
resultOf(kind, input, outcome) ==
  CASE kind = "conceptual" -> evaluateConceptualResponse(outcome)
    [] kind = "practical" -> evaluatePracticalTask(input, outcome)
    [] kind = "analytics" -> generateExcelAnalytics(input, outcome)

begin(kind, input) ==
  IF requests(kind, input)
  THEN [phase |-> "requesting", kind |-> kind, input |-> input, retries |-> 0,
        outcome |-> NoValue, result |-> NoValue]
  ELSE [phase |-> "done", kind |-> kind, input |-> input, retries |-> 0,
        outcome |-> NoValue,
        result |-> IF kind = "practical" THEN ruleBasedResult(input)
                   ELSE generateBasicAnalytics(input)]

\* A caller awaits evaluateConceptualResponse, evaluatePracticalTask or
\* generateExcelAnalytics.
EvalStart(kind, input) ==
  /\ evalCall.phase # "requesting"
  /\ evalCall' = begin(kind, input)
  /\ evalPrev' = NoValue
  /\ UNCHANGED otherThanEval

\* The same call once more, with identical arguments.
EvalRepeat ==
  /\ evalCall.phase = "done"
  /\ evalCall' = begin(evalCall.kind, evalCall.input)
  /\ evalPrev' = evalCall.result
  /\ UNCHANGED otherThanEval

\* the client with one retry more than it is configured for
mayRetry_oneMore(retries) == retries < maxRetries + 1

\* the client's retry budget: maxRetries retries after the first attempt
mayRetry(retries) == retries < maxRetries

\* An attempt ends with a retryable error and the client tries again.
ClientRetry(error) ==
  /\ evalCall.phase = "requesting"
  /\ isRetryable(error)
  /\ mayRetry(evalCall.retries)
  /\ evalCall' = [evalCall EXCEPT !.retries = @ + 1]
  /\ UNCHANGED evalPrev
  /\ UNCHANGED otherThanEval

\* The awaited request settles: a completion, an error that is not retried,
\* or a retryable error after the last retry.  The call returns.
CallSettles(outcome) ==
  /\ evalCall.phase = "requesting"
  /\ isRetryable(outcome.error) => ~mayRetry(evalCall.retries)
  /\ evalCall' = [evalCall EXCEPT
                    !.phase = "done",
                    !.outcome = outcome,
                    !.result = resultOf(evalCall.kind, evalCall.input, outcome)]
  /\ UNCHANGED evalPrev
  /\ UNCHANGED otherThanEval

AttemptEnds ==
  \/ \E e \in ErrorKinds : ClientRetry(e)
  \/ \E o \in Outcomes : CallSettles(o)

EvalInit ==
  /\ evalCall = [phase |-> "idle", kind |-> "none", input |-> NoValue,
                 retries |-> 0, outcome |-> NoValue, result |-> NoValue]
  /\ evalPrev = NoValue

EvalNext ==
  \/ \E k \in EvalKinds : \E i \in InputsOf(k) : EvalStart(k, i)
  \/ EvalRepeat
  \/ \E e \in ErrorKinds : ClientRetry(e)
  \/ \E o \in Outcomes : CallSettles(o)

(***************************************************************************)
(* saveSpreadsheetResult (services/excel-question-generator.service.ts):   *)
(* a select of the row's spreadsheet_results, then an update with the list *)
(* read plus the new result.  A call is one step up to the answer to its   *)
(* select and one step for its update.                                     *)
(***************************************************************************)
Results == {"r" \o ToString(i) : i \in 1..MaxResults}

\* The select: with an error the call returns false; otherwise it holds the
\* list it read (spreadsheet_results || []) until its update.
SaveFetch(result, ok) ==
  /\ response.returned[result] # "true"
  /\ \A rec \in response.saves : rec.result # result
  /\ response' =
       IF ok
       THEN [response EXCEPT
               !.saves = @ \cup {[result |-> result,
                                  currentResults |-> response.spreadsheet_results]},
               !.returned[result] = "none"]
       ELSE [response EXCEPT !.returned[result] = "false"]
  /\ UNCHANGED config
  /\ UNCHANGED otherThanService

\* The update with [...currentResults, result], and the value returned.
SaveUpdate(rec, ok) ==
  /\ rec \in response.saves
  /\ response' =
       IF ok
       THEN [response EXCEPT
               !.spreadsheet_results = Append(rec.currentResults, rec.result),
               !.saves = @ \ {rec},
               !.returned[rec.result] = "true"]
       ELSE [response EXCEPT !.saves = @ \ {rec},
                             !.returned[rec.result] = "false"]
  /\ UNCHANGED config
  /\ UNCHANGED otherThanService

SaveInit ==
  response = [spreadsheet_results |-> <<>>, saves |-> {},
              returned |-> [r \in Results |-> "none"]]

SaveNext ==
  \/ \E result \in Results, ok \in BOOLEAN : SaveFetch(result, ok)
  \/ \E rec \in response.saves, ok \in BOOLEAN : SaveUpdate(rec, ok)

(***************************************************************************)
(* ExcelConfigManager: the cache of skill configurations.  Time is in      *)
(* minutes.  A configuration is its skill level, the version the store     *)
(* held when it was read, and the time it was read at (kept for the        *)
(* claims; the code keeps one lastCacheUpdate for the whole cache).  The   *)
(* store holds a configuration for every level.                            *)
(***************************************************************************)
Levels == {"basic", "intermediate", "advanced"}

cacheExpiry == 5

\* Date.now() when the manager is constructed: anything later than
\* cacheExpiry after the epoch, where lastCacheUpdate starts.
constructedAt == cacheExpiry

SkillConfig(level, version, readAt) ==
  [skill_level |-> level, version |-> version, readAt |-> readAt]

isCacheValid(c) == c.clock - c.lastCacheUpdate < cacheExpiry

\* ExcelSkillConfigService.getConfigByLevel
getConfigByLevel(c, level) == SkillConfig(level, c.store[level], c.clock)

\* [config, value, cached]: the manager after the call, the value returned
\* (a set: empty for null) and whether it came from the cache
getSkillConfig(c, level) ==
  IF isCacheValid(c) /\ c.configCache[level] # {}
  THEN [config |-> c, value |-> c.configCache[level], cached |-> TRUE]
  ELSE LET fetched == getConfigByLevel(c, level)
       IN  [config |-> [c EXCEPT !.configCache[level] = {fetched},
                                 !.lastCacheUpdate = c.clock],
            value |-> {fetched}, cached |-> FALSE]

getAllSkillConfigs(c) ==
  IF isCacheValid(c) /\ (\E l \in Levels : c.configCache[l] # {})
  THEN [config |-> c, value |-> UNION {c.configCache[l] : l \in Levels},
        cached |-> TRUE]
  ELSE LET configs == {getConfigByLevel(c, l) : l \in Levels}
       IN  [config |-> [c EXCEPT
                          !.configCache =
                            [l \in Levels |-> {getConfigByLevel(c, l)}],
                          !.lastCacheUpdate = c.clock],
            value |-> configs, cached |-> FALSE]

\* updateConfig succeeded (updated) or returned null
updateSkillConfig(c, level, updated) ==
  LET current == getSkillConfig(c, level)
      c1 == current.config
  IN  IF ~updated THEN [config |-> c1, value |-> {}, cached |-> FALSE]
      ELSE LET version == c1.store[level] + 1
           IN  [config |-> [c1 EXCEPT
                              !.store[level] = version,
                              !.configCache[level] =
                                {SkillConfig(level, version, c1.clock)}],
                value |-> {}, cached |-> FALSE]

clearCache(c) ==
  [c EXCEPT !.configCache = [l \in Levels |-> {}], !.lastCacheUpdate = 0]

configAnswered(r, op) ==
  [r.config EXCEPT !.answer = [op |-> op, value |-> r.value,
                               cached |-> r.cached, at |-> r.config.clock]]

GetSkillConfig(level) ==
  /\ config' = configAnswered(getSkillConfig(config, level), "getSkillConfig")
  /\ UNCHANGED response
  /\ UNCHANGED otherThanService

GetAllSkillConfigs ==
  /\ config' = configAnswered(getAllSkillConfigs(config), "getAllSkillConfigs")
  /\ UNCHANGED response
  /\ UNCHANGED otherThanService

UpdateSkillConfig(level, updated) ==
  /\ config.store[level] < MaxVersion
  /\ config' = configAnswered(updateSkillConfig(config, level, updated),
                        "updateSkillConfig")
  /\ UNCHANGED response
  /\ UNCHANGED otherThanService

ClearCache ==
  /\ config' = [clearCache(config) EXCEPT
                  !.answer = [op |-> "clearCache", value |-> {},
                              cached |-> FALSE, at |-> config.clock]]
  /\ UNCHANGED response
  /\ UNCHANGED otherThanService

ConfigTick ==
  /\ config.clock + ClockStep <= MaxClock
  /\ config' = [config EXCEPT !.clock = @ + ClockStep]
  /\ UNCHANGED response
  /\ UNCHANGED otherThanService

ConfigInit ==
  config = [configCache |-> [l \in Levels |-> {}], lastCacheUpdate |-> 0,
            store |-> [l \in Levels |-> 0], clock |-> constructedAt,
            answer |-> [op |-> "none", value |-> {}, cached |-> FALSE,
                        at |-> constructedAt]]

ConfigNext ==
  \/ \E level \in Levels : GetSkillConfig(level)
  \/ GetAllSkillConfigs
  \/ \E level \in Levels, updated \in BOOLEAN : UpdateSkillConfig(level, updated)
  \/ ClearCache
  \/ ConfigTick

ServiceInit == SaveInit /\ ConfigInit

Init == MgrInit /\ StoreInit /\ TaskInit /\ EvalInit /\ UtilInit /\ ServiceInit

Next == MgrNext

Spec == Init /\ [][Next]_vars

StoreSpecInit == MgrIdle /\ StoreInit /\ TaskInit /\ EvalInit /\ UtilInit /\ ServiceInit

StoreSpecNext == StoreNext

StoreSpec == StoreSpecInit /\ [][StoreSpecNext]_vars

TaskSpecInit == MgrIdle /\ StoreInit /\ TaskInit /\ EvalInit /\ UtilInit /\ ServiceInit

TaskSpecNext == TaskNext

TaskSpec == TaskSpecInit /\ [][TaskSpecNext]_vars

RestoredSpecInit == RestoredInit /\ StoreInit /\ TaskInit /\ EvalInit /\ UtilInit /\ ServiceInit

RestoredSpec == RestoredSpecInit /\ [][RestoredNext]_vars

InterviewSpecInit == MgrIdle /\ StoreInit /\ InterviewInit /\ EvalInit /\ UtilInit /\ ServiceInit

InterviewSpec == InterviewSpecInit /\ [][InterviewNext]_vars

EvalSpecInit == MgrIdle /\ StoreInit /\ TaskInit /\ EvalInit /\ UtilInit /\ ServiceInit

EvalSpecNext == EvalNext

EvalSpec == EvalSpecInit /\ [][EvalSpecNext]_vars

OverlapSpec == Init /\ [][OverlapNext]_vars

ProgressSpec == Init /\ [][ProgressNext]_vars

IdleInit == MgrIdle /\ StoreInit /\ TaskInit /\ EvalInit /\ UtilInit /\ ServiceInit

TrackerSpec == IdleInit /\ [][TrackerNext]_vars

CompareSpec == IdleInit /\ [][CompareNext]_vars

ScoreSpec == IdleInit /\ [][ScoreNext]_vars

SaveSpec == IdleInit /\ [][SaveNext]_vars

ConfigSpec == IdleInit /\ [][ConfigNext]_vars

\* Every attempt of a request ends: with a completion, with an error, or
\* with the client's request timeout.
EvalFairSpec ==
  /\ EvalSpecInit
  /\ [][EvalSpecNext]_vars
  /\ WF_vars(AttemptEnds)

(***************************************************************************)
(* Claims about the state manager                                          *)
(***************************************************************************)
\* b is the phase right after a in the five-phase order
NextInOrder(a, b) ==
  /\ indexOf(stateFlow, a) > 0
  /\ indexOf(stateFlow, b) = indexOf(stateFlow, a) + 1

IsPrefix(p, q) ==
  /\ Len(p) <= Len(q)
  /\ \A i \in 1..Len(p) : p[i] = q[i]

toStates(h) == [i \in 1..Len(h) |-> h[i].to_state]

\* the callbacks registered on a phase, as the log of a run of all of them
AllHooks(cbmap, st) ==
  [i \in 1..Len(cbmap[st]) |-> [state |-> st, index |-> i, kind |-> cbmap[st][i]]]

\* C1: whatever calls are made, current_state only ever changes from a phase
\* to the phase right after it in the order introduction, conceptual_questions,
\* practical_tasks, feedback_generation, conclusion.
C1_OnlySuccessor ==
  [][session'.current_state # session.current_state
       => NextInOrder(session.current_state, session'.current_state)]_vars

C1_Witness ==
  /\ last.op = "transition_to"
  /\ last.result = TRUE
  /\ session.current_state = "practical_tasks"

\* C2: a transition_to call whose new_state is not the successor of the
\* current state returns false and leaves the whole session (current_state,
\* state_history, state_data, end_time, total_duration) as it was.
C2_InvalidLeavesSession ==
  [][(last'.op = "transition_to"
        /\ ~NextInOrder(session.current_state, last'.arg))
       => (last'.result = FALSE /\ session' = session)]_vars

C2_Witness ==
  /\ last.op = "transition_to"
  /\ last.arg = "conclusion"
  /\ last.result = FALSE
  /\ session.current_state = "conceptual_questions"

\* C4: in state_history every entry's from_state is the previous entry's
\* to_state, and the first entry's from_state is introduction.
C4_HistoryChained ==
  \A i \in 1..Len(session.state_history) :
    session.state_history[i].from_state =
      (IF i = 1 THEN "introduction" ELSE session.state_history[i - 1].to_state)

C4_Witness == Len(session.state_history) = 3

\* C5 as stated: the to_state values of state_history are a prefix of
\* [introduction, conceptual_questions, practical_tasks, feedback_generation,
\* conclusion].
C5_Original == IsPrefix(toStates(session.state_history), stateFlow)

\* C5 as amended: the initial state introduction followed by the to_state
\* values of state_history is a prefix of the five-phase order, i.e. the
\* to_state values are a prefix of [conceptual_questions, practical_tasks,
\* feedback_generation, conclusion].
C5_ToStatesPrefix ==
  IsPrefix(<<"introduction">> \o toStates(session.state_history), stateFlow)

C5_Witness ==
  /\ Len(session.state_history) = 4
  /\ session.state_history[4].to_state = "conclusion"

\* C6: once current_state is conclusion, it stays conclusion and every
\* transition_to or autoProgress call returns false.
C6_ConclusionTerminal ==
  [][session.current_state = "conclusion"
       => /\ session'.current_state = "conclusion"
          /\ (last'.op \in {"transition_to", "autoProgress"}
                => last'.result = FALSE)]_vars

C6_Witness ==
  /\ session.current_state = "conclusion"
  /\ last.op = "autoProgress"
  /\ last.result = FALSE

\* C7: a transition_to call to the allowed successor during which a pre- or
\* post-transition hook throws still returns true with current_state and
\* state_history updated, and every hook registered on the old and on the new
\* state is run, those after the throwing one included.
C7_HookErrorsDoNotAbort ==
  [][(/\ last'.op = "transition_to"
      /\ NextInOrder(session.current_state, last'.arg)
      /\ \E st \in {session.current_state, last'.arg} :
           includes(callbacks[st], "throw"))
       => /\ last'.result = TRUE
          /\ session'.current_state = last'.arg
          /\ Len(session'.state_history) = Len(session.state_history) + 1
          /\ last'.hooks = AllHooks(callbacks, session.current_state)
                             \o AllHooks(callbacks, last'.arg)]_vars

C7_Witness ==
  /\ last.op = "transition_to"
  /\ last.result = TRUE
  /\ \E i, j \in 1..Len(last.hooks) :
       /\ i < j
       /\ last.hooks[i].state = last.hooks[j].state
       /\ last.hooks[i].kind = "throw"
       /\ last.hooks[j].kind = "ok"

\* C12: autoProgress moves the session on only when the current phase is
\* complete at the time of the call; when it is not, the call returns false
\* and the session is as it was.
C12_AutoProgressOnlyWhenComplete ==
  [][last'.op = "autoProgress"
       => IF isCurrentStateComplete(session, now)
          THEN last'.result = TRUE
                 => /\ NextInOrder(session.current_state, session'.current_state)
                    /\ Len(session'.state_history) = Len(session.state_history) + 1
          ELSE last'.result = FALSE /\ session' = session]_vars

C12_Witness ==
  /\ last.op = "autoProgress"
  /\ last.result = FALSE
  /\ session.current_state = "conceptual_questions"
  /\ session.state_data.total_questions > 0
  /\ session.state_data.questions_completed < session.state_data.total_questions

\* C13: in conceptual_questions or practical_tasks with a total of 0 the
\* phase is not complete, whatever the completed count, and autoProgress
\* returns false.
C13_ZeroTotalNeverComplete ==
  [][(\/ /\ session.current_state = "conceptual_questions"
         /\ NumOr0(session.state_data, "total_questions") = 0
      \/ /\ session.current_state = "practical_tasks"
         /\ NumOr0(session.state_data, "total_tasks") = 0)
       => /\ ~isCurrentStateComplete(session, now)
          /\ last'.op = "autoProgress"
               => (last'.result = FALSE /\ session' = session)]_vars

C13_Witness ==
  /\ last.op = "autoProgress"
  /\ last.result = FALSE
  /\ session.current_state = "practical_tasks"
  /\ session.state_data.total_tasks = 0
  /\ session.state_data.tasks_completed > 0

feedbackGenerated(s) ==
  Has(s.state_data, "feedback_generated") /\ s.state_data.feedback_generated = TRUE

setsFeedbackGenerated(data) ==
  /\ data.present
  /\ Has(data.obj, "feedback_generated")
  /\ data.obj.feedback_generated = TRUE

C15_IndexZeroOnEntry ==
  [][(last'.op = "transition_to" /\ last'.result = TRUE)
       => /\ last'.arg = "conceptual_questions"
               => session'.state_data.current_question_index = 0
          /\ last'.arg = "practical_tasks"
               => session'.state_data.current_task_index = 0]_vars

(***************************************************************************)
(* Claims about the stored session                                         *)
(***************************************************************************)
\* The candidate goes on: the page finishes loading, and a Start Interview or
\* Next Stage request that can succeed eventually does.
FlowFairSpec ==
  /\ StoreSpecInit
  /\ [][StoreSpecNext]_vars
  /\ WF_vars(FlowInitialize(TRUE))
  /\ WF_vars(FlowTransitionToNextState("ok"))

\* C8: the stored current_state is the to_state of the last transition of the
\* stored state_history (a stored history with no transition yet says nothing).
C8_StoredStateIsLastRecorded ==
  (stored.exists /\ Len(stored.state_history) > 0)
    => stored.current_state =
         stored.state_history[Len(stored.state_history)].to_state

\* C9: every write leaves the previously stored state_history as a prefix of
\* the new one: a recorded transition is never dropped or overwritten.
C9_HistoryAppendOnly ==
  [][stored.exists => IsPrefix(stored.state_history, stored'.state_history)]_vars

\* C10: an interview whose candidate goes on through the stages ends in the
\* conclusion state.
C10_EndsInConclusion == <>(flow.loaded /\ flow.currentState = "conclusion")

(***************************************************************************)
(* Claims about the practical task                                         *)
(***************************************************************************)
resultsOf(taskId) ==
  {i \in DOMAIN call.taskResults : call.taskResults[i].task_id = taskId}

\* C3: whichever of the timer's auto-submit and the candidate's Complete Task
\* comes first, the parent holds at most one TaskResult for a task.
C3_OneResultPerTask ==
  \A i \in DOMAIN tasks : Cardinality(resultsOf(tasks[i])) <= 1

\* C11: when the timer expires, the result handed to the parent is evaluated
\* on the grid and the action log as they stand at expiry.
C11_ExpiryUsesCurrentWork ==
  [][TimerTimeUp =>
       LET result == call'.taskResults[Len(call'.taskResults)]
       IN  /\ Len(call'.taskResults) = Len(call.taskResults) + 1
           /\ result.final_state = workspace.sheets
           /\ result.user_actions = workspace.actions]_vars

\* the timer expired after an edit and its result is with the parent
C11_Witness ==
  /\ workspace.timeRemaining = 0
  /\ workspace.sheets = "edited"
  /\ Len(call.taskResults) = 1
  /\ call.taskResults[1].final_state = "edited"
  /\ call.taskResults[1].user_actions > 0

\* C25: the initial snapshot handed to the evaluator at submit time has the
\* cells the task started with.
C25_InitialSnapshotKept ==
  \A i \in DOMAIN call.taskResults :
    call.taskResults[i].initial_state = "initial"

(***************************************************************************)
(* Claims about the spreadsheet utilities                                  *)
(***************************************************************************)
\* C24: after any sequence of operations on an ActionTracker every action
\* ever added is still in its log, unchanged and in arrival order.
C24_LogKeepsEveryAction == tracker.actions = added

\* the longest row of a sheet
widest(sheet) ==
  IF sheet = <<>> THEN 0
  ELSE CHOOSE n \in {Len(sheet[r]) : r \in DOMAIN sheet} :
         \A r \in DOMAIN sheet : Len(sheet[r]) <= n

\* the cells of the bounding rectangle of two sheets whose content differs,
\* a missing cell counting as empty
differingCells(initialSheet, finalSheet) ==
  {rc \in (1..max(Len(initialSheet), Len(finalSheet)))
            \X (1..max(widest(initialSheet), widest(finalSheet))) :
     cellAt(initialSheet, rc[1], rc[2]) # cellAt(finalSheet, rc[1], rc[2])}

recordedCells(changedCells) ==
  {<<changedCells[i].cell.row, changedCells[i].cell.col>> : i \in DOMAIN changedCells}

\* C26: compareSpreadsheets records in changedCells every cell whose content
\* differs between the two snapshots of a sheet, over the full bounding
\* rectangle of both grids, rows longer than the first row included.
C26_EveryDifferenceRecorded ==
  (scored.op = "compareSpreadsheets"
     /\ Len(scored.initial) = 1 /\ Len(scored.final) = 1)
    => recordedCells(scored.result.changedCells)
         = differingCells(scored.initial[1], scored.final[1])

usesEfficientFunction(formulas) ==
  \E i \in DOMAIN formulas : \E j \in DOMAIN efficientFunctions :
    formulaIncludes(formulas[i], efficientFunctions[j])

\* the efficiency of the same changed cells with no added formula
efficiencyWithout == calculateEfficiency(scored.result.changedCells, <<>>)

bonusCase ==
  /\ scored.op = "compareSpreadsheets"
  /\ scored.hasExpected
  /\ usesEfficientFunction(scored.result.addedFormulas)

\* C27 as stated: a diff whose added formulas include a function of the
\* allowlist scores 10 more for efficiency than the same diff without it.
C27_Original ==
  bonusCase => scored.result.efficiency = efficiencyWithout + 10

\* C27: a diff whose added formulas include a function of the allowlist
\* scores for efficiency 10 more than the same diff without it where that
\* sum stays within 0..100: exactly 10 more when the other score is between
\* 1 and 90, 100 when the other score is above 90, and never less than the
\* other score.
C27_BonusWithinClamp ==
  bonusCase =>
    /\ scored.result.efficiency >= efficiencyWithout
    /\ efficiencyWithout \in 1..90
         => scored.result.efficiency = efficiencyWithout + 10
    /\ efficiencyWithout > 90 => scored.result.efficiency = 100

C27_Witness ==
  /\ bonusCase
  /\ Len(scored.result.changedCells) = 20
  /\ efficiencyWithout = 80
  /\ scored.result.efficiency = 90

missingRequired(userActions, criteria) ==
  {criteria.required_formulas[i] : i \in DOMAIN criteria.required_formulas}
    \ getFunctionsUsed(userActions)

usedOptional(userActions, criteria) ==
  {criteria.optional_formulas[i] : i \in DOMAIN criteria.optional_formulas}
    \cap getFunctionsUsed(userActions)

\* C28 as stated: with a required function missing from the functions the
\* candidate used, best_practices_score is at most 80.
C28_Original ==
  (scored.op = "evaluateTask"
     /\ missingRequired(scored.userActions, scored.criteria) # {})
    => scored.result.best_practices_score <= 80

\* C28: with a required function missing from the functions the candidate
\* used, best_practices_score is at most 80 plus 10 for every optional
\* function of the rubric that was used; at most 80 when none was used.
C28_MissingRequiredCapped ==
  (scored.op = "evaluateTask"
     /\ missingRequired(scored.userActions, scored.criteria) # {})
    => scored.result.best_practices_score
         <= 80 + 10 * Cardinality(usedOptional(scored.userActions, scored.criteria))

C28_Witness ==
  /\ scored.op = "evaluateTask"
  /\ missingRequired(scored.userActions, scored.criteria) = {"VLOOKUP"}
  /\ usedOptional(scored.userActions, scored.criteria) = {}
  /\ scored.result.best_practices_score = 80

(***************************************************************************)
(* Claims about the evaluation service                                     *)
(***************************************************************************)
returned == evalCall.phase = "done"

\* the request of the returned call failed, or its completion carried no
\* content, only blanks, or text that is not a JSON object
evaluatorFailed ==
  /\ requests(evalCall.kind, evalCall.input)
  /\ \/ evalCall.outcome.error # ""
     \/ ~evalCall.outcome.hasContent
     \/ trim(evalCall.outcome.content) = ""
     \/ parsedResponse(evalCall.outcome).thrown

C17_FeedbackNeverEmpty ==
  (returned /\ (evaluatorFailed \/ ~requests(evalCall.kind, evalCall.input)))
    => /\ evalCall.kind = "conceptual" => ~isEmptyText(evalCall.result.feedback)
       /\ evalCall.kind = "analytics"
            => ~isEmptyText(evalCall.result.overall_feedback)

C17_Witness ==
  /\ returned
  /\ evalCall.kind = "analytics"
  /\ evalCall.input.wellFormed
  /\ evalCall.outcome.error = "fatal_error"
  /\ evalCall.result.overall_feedback.parts[1] = "You demonstrated"

\* C18: when the evaluator fails during evaluatePracticalTask, the result
\* carries the scores and the feedback of the rule-based Task Evaluator.
C18_RuleBasedOnFailure ==
  (returned /\ evalCall.kind = "practical" /\ evaluatorFailed)
    => LET basic == ruleBasedResult(evalCall.input)
       IN  /\ evalCall.result.accuracy_score = basic.accuracy_score
           /\ evalCall.result.efficiency_score = basic.efficiency_score
           /\ evalCall.result.best_practices_score = basic.best_practices_score
           /\ evalCall.result.task_feedback = basic.task_feedback

\* C19: generateExcelAnalytics called twice with identical inputs returns
\* identical reports.
C19_SameInputsSameReport ==
  (returned /\ evalCall.kind = "analytics" /\ evalPrev # NoValue)
    => evalCall.result = evalPrev

\* readiness thresholds of ExcelAnalyticsService
getReadinessThreshold(skillLevel) ==
  CASE skillLevel = "basic" -> 75
    [] skillLevel = "intermediate" -> 80
    [] skillLevel = "advanced" -> 85

levelUp(skillLevel) ==
  CASE skillLevel = "basic" -> "intermediate"
    [] skillLevel = "intermediate" -> "advanced"
    [] skillLevel = "advanced" -> "advanced"

\* C20: the recommended level of a report is the next level up when the
\* overall score meets the readiness threshold of the current level, and the
\* current level otherwise.
C20_RecommendedLevelByThreshold ==
  (returned /\ evalCall.kind = "analytics" /\ evalCall.input.wellFormed)
    => evalCall.result.recommended_level =
         (IF overallScoreOf(evalCall.input)
               >= getReadinessThreshold(evalCall.input.skillLevel)
          THEN levelUp(evalCall.input.skillLevel)
          ELSE evalCall.input.skillLevel)

\* C21: each of the six skill-breakdown categories of a report has a
\* defined numeric score, never the result of a division by zero, and a
\* category without data has the neutral default 70.
C21_BreakdownDefined ==
  (returned /\ evalCall.kind = "analytics")
    => LET breakdown == evalCall.result.excel_skill_breakdown
           input == evalCall.input
       IN  /\ DOMAIN breakdown = skillCategories
           /\ \A c \in skillCategories : ~breakdown[c].nan
           /\ input.spreadsheetResults = <<>> /\ input.wellFormed
                => breakdown.formula_accuracy = Num(70)
           /\ ~Has(input.category_scores, "Data Analysis")
                => breakdown.data_analysis = Num(70)

\* C22: every TaskResult returned by evaluatePracticalTask has its three
\* scores within 0..100, whatever the text evaluator answers.
C22_ScoresInRange ==
  (returned /\ evalCall.kind = "practical")
    => /\ evalCall.result.accuracy_score \in 0..100
       /\ evalCall.result.efficiency_score \in 0..100
       /\ evalCall.result.best_practices_score \in 0..100

\* C23: the completion time of a TaskResult returned by
\* evaluatePracticalTask is the elapsed time the caller supplied, on every
\* path of the evaluation.
C23_CompletionTimeFromCaller ==
  (returned /\ evalCall.kind = "practical")
    => evalCall.result.completion_time = evalCall.input.completionTime

(***************************************************************************)
(* C29: getProgressPercentage() answers a value within 0..100 in every     *)
(* session state the manager can reach, whatever the completed and total   *)
(* counts are (completed above total, total zero).                         *)
(***************************************************************************)
C29_ProgressInRange ==
  last.op = "getProgressPercentage" =>
    /\ last.value.den > 0
    /\ 0 <= last.value.num
    /\ last.value.num <= 100 * last.value.den

\* asked in the practical phase with more tasks completed than there are:
\* 35 + (2 / 1) * 50 is above 100 and the answer is 100
C29_Witness ==
  /\ last.op = "getProgressPercentage"
  /\ session.current_state = "practical_tasks"
  /\ NumOr0(session.state_data, "tasks_completed")
       > NumOr1(session.state_data, "total_tasks")
  /\ currentProgress(session, now).num > 100 * currentProgress(session, now).den
  /\ last.value = Fraction(100, 1)

(***************************************************************************)
(* C30: when a second transition_to or autoProgress call starts on the     *)
(* manager while an earlier one is still awaiting its hooks, state_history *)
(* gains at most one entry for the earlier call's phase change and at most *)
(* one of the two calls returns true.                                      *)
(***************************************************************************)
entriesFor(from_state, to_state) ==
  Cardinality({n \in 1..Len(session.state_history) :
                 /\ session.state_history[n].from_state = from_state
                 /\ session.state_history[n].to_state = to_state})

\* call j started while call i was suspended at one of its awaits
overlapping(i, j) == i \in pending[j].duringPre \cup pending[j].duringPost

C30_Original ==
  \A i, j \in DOMAIN pending :
    overlapping(i, j) =>
      /\ entriesFor(pending[i].currentState, pending[i].new_state) <= 1
      /\ ~(pending[i].result /\ pending[j].result)

\* C30 as it holds: a call for the same phase that starts once the earlier
\* call has recorded the change, that is while the earlier call awaits its
\* post-transition hooks, returns false and adds no entry.  (A call that
\* starts while the earlier one awaits its pre-transition hooks passes the
\* same check, and both add an entry and return true.)
C30_LateCallRefused ==
  \A i, j \in DOMAIN pending :
    (i \in pending[j].duringPost /\ pending[j].new_state = pending[i].new_state) =>
      /\ pending[j].pc = "done"
      /\ ~pending[j].result
      /\ ~pending[j].pushed
      /\ pending[j].awaited = <<>>

\* the earlier call awaits a registered post-transition hook, the second
\* call for the same phase has returned false, and the phase change is in
\* state_history once
C30_Witness ==
  \E i, j \in DOMAIN pending :
    /\ i \in pending[j].duringPost
    /\ pending[j].new_state = pending[i].new_state
    /\ pending[i].pc = "post"
    /\ callbacks[pending[i].new_state] # <<>>
    /\ pending[j].pc = "done" /\ ~pending[j].result
    /\ entriesFor(pending[i].currentState, pending[i].new_state) = 1

(***************************************************************************)
(* C40: ActionTracker.getTimeSpent() is never negative, whatever the order *)
(* the logged actions arrived in, and is 0 when at most one action is      *)
(* logged.                                                                 *)
(***************************************************************************)
C40_TimeSpentNotNegative ==
  tracker.answer.op = "getTimeSpent" =>
    /\ tracker.answer.value >= 0
    /\ (Len(tracker.actions) <= 1 => tracker.answer.value = 0)

(***************************************************************************)
(* C36: once updateConceptualProgress (updatePracticalProgress) has        *)
(* reported as many answered questions (completed tasks) as the phase's    *)
(* total, isCurrentStateComplete() is true in that phase and the next      *)
(* autoProgress() call moves the session to the next phase.                *)
(***************************************************************************)
\* the phase's total is positive and the progress reported reaches it
reportedAll(s) ==
  \/ /\ s.current_state = "conceptual_questions"
     /\ NumOr0(s.state_data, "total_questions") > 0
     /\ s.conceptual_progress.questions_answered
          >= NumOr0(s.state_data, "total_questions")
  \/ /\ s.current_state = "practical_tasks"
     /\ NumOr0(s.state_data, "total_tasks") > 0
     /\ s.practical_progress.tasks_completed >= NumOr0(s.state_data, "total_tasks")

C36_ReportedProgressCompletes ==
  [][reportedAll(session) =>
       /\ isCurrentStateComplete(session, now)
       /\ (last'.op = "autoProgress" =>
             /\ last'.result = TRUE
             /\ <<session'.current_state>> = getNextState(session))]_vars

(***************************************************************************)
(* C31: every transition recordStateTransition appends to the stored       *)
(* session starts from the stored current_state and goes to its single     *)
(* allowed successor; a request to store a skipped or backward phase is    *)
(* rejected and leaves the stored session unchanged.                       *)
(***************************************************************************)
C31_StoredTransitionsValid ==
  [][\A rec \in inflight \ inflight' :
       stored' # stored =>
         /\ rec.transition.from_state = stored.current_state
         /\ can_transition(stored, rec.transition.to_state)]_vars

(***************************************************************************)
(* C34: each successful call of ExcelInterviewFlow.transitionToNextState   *)
(* moves the session exactly one phase forward and posts a transition from *)
(* the current phase to its successor, so that repeated calls take a new   *)
(* session through the five phases in order.                               *)
(***************************************************************************)
\* this step is a transitionToNextState whose update request was stored
flowPosted ==
  /\ flow.loaded /\ flow'.loaded
  /\ inflight' = inflight
  /\ stored'.state_history # stored.state_history

C34_FlowMovesOnePhase ==
  [][flowPosted =>
       LET posted == stored'.state_history[Len(stored'.state_history)]
       IN  /\ posted.from_state = flow.currentState
           /\ <<posted.to_state>> = getValidTransitions(flow.currentState)
           /\ flow'.currentState = posted.to_state
           /\ stored'.current_state = posted.to_state]_vars

\* the place of a phase in the five-phase order
phaseIndex(state) == CHOOSE i \in DOMAIN stateOrder : stateOrder[i] = state

\* C35: the phase shown by ExcelInterviewCall only moves one step forward in
\* the five-phase order: no change of phase skips conceptual_questions or
\* goes back to an earlier phase.
C35_PhaseOneStepForward ==
  [][call'.currentState # call.currentState =>
       phaseIndex(call'.currentState) = phaseIndex(call.currentState) + 1]_vars

C37_FalseLeavesSessionAlone ==
  [][last'.op = "transition_to" =>
       /\ last'.result = (session' # session)
       /\ (~last'.result =>
             /\ session'.current_state = session.current_state
             /\ session'.state_history = session.state_history)]_vars

\* C32: once the calls of saveSpreadsheetResult for two different results of
\* one response have both returned true, overlapping or not, both results
\* are in the stored list.
C32_BothResultsStored ==
  \A r1, r2 \in Results :
    (response.returned[r1] = "true" /\ response.returned[r2] = "true") =>
      \E i, j \in DOMAIN response.spreadsheet_results :
        /\ response.spreadsheet_results[i] = r1
        /\ response.spreadsheet_results[j] = r2

\* C38: getAllSkillConfigs returns a configuration for every skill level the
\* store holds, whatever filled the cache before.
C38_AllConfigsReturned ==
  config.answer.op = "getAllSkillConfigs" =>
    {c.skill_level : c \in config.answer.value} = DOMAIN config.store

\* C39: a skill configuration served from the cache was read from the store
\* no more than cacheExpiry ago.
C39_CachedConfigIsFresh ==
  (config.answer.op = "getSkillConfig" /\ config.answer.cached) =>
    \A c \in config.answer.value : config.answer.at - c.readAt <= cacheExpiry

====
